---- MODULE Spec2Model ----
(***************************************************************************)
(* Toolset discovery, classification, query and persistence engine of the  *)
(* nuke-toolsets repository (toolset.py, loader.py, saver.py, config.py).  *)
(*                                                                         *)
(* Strings are sequences of one-character strings, so that lower(),        *)
(* strip(), startswith(), splitext(), split(",") and the substring test    *)
(* are computed, not assumed.  The filesystem is a function from paths     *)
(* (sequences of names, relative to TOOLSETS_ROOT) to nodes.               *)
(***************************************************************************)
EXTENDS Naturals, Integers, Sequences, FiniteSets, TLC

VARIABLES fs, host, toolsets, load_errors, created, ret

vars == <<fs, host, toolsets, load_errors, created, ret>>

(***************************************************************************)
(* Names used on disk and in calls                                         *)
(***************************************************************************)
N_toolset_nk == <<"t", "o", "o", "l", "s", "e", "t", ".", "n", "k">>
N_toolset_py == <<"t", "o", "o", "l", "s", "e", "t", ".", "p", "y">>
N_Toolset_PY == <<"T", "o", "o", "l", "s", "e", "t", ".", "P", "Y">>
N_TOOLSET_NK == <<"T", "O", "O", "L", "S", "E", "T", ".", "N", "K">>
N_toolset_txt == <<"t", "o", "o", "l", "s", "e", "t", ".", "t", "x", "t">>
N_toolset == <<"t", "o", "o", "l", "s", "e", "t">>
N_toolset_tar_gz == <<"t", "o", "o", "l", "s", "e", "t", ".", "t", "a", "r", ".", "g", "z">>
N_data_json == <<"d", "a", "t", "a", ".", "j", "s", "o", "n">>
N_alice == <<"a", "l", "i", "c", "e">>
N_bob == <<"b", "o", "b">>
N_temp == <<"_", "t", "e", "m", "p">>
N_cache == <<".", "c", "a", "c", "h", "e">>
N_readme == <<"r", "e", "a", "d", "m", "e", ".", "t", "x", "t">>
N_Blur == <<"B", "l", "u", "r">>
N_Grade == <<"G", "r", "a", "d", "e">>
N_old == <<"_", "o", "l", "d">>
N_Blur_2 == <<"B", "l", "u", "r", " ", "2">>

\* os.listdir returns the entries in an order the operating system chooses;
\* the model lists every directory in this one fixed order.
NameOrder ==
    << N_alice, N_bob, N_temp, N_cache, N_readme,
       N_Blur, N_Blur_2, N_Grade, N_old,
       N_TOOLSET_NK, N_Toolset_PY, N_data_json, N_toolset,
       N_toolset_nk, N_toolset_py, N_toolset_tar_gz, N_toolset_txt >>

(***************************************************************************)
(* Python str operations                                                   *)
(***************************************************************************)
Uppers == <<"A", "B", "C", "D", "E", "F", "G", "H", "I", "J", "K", "L", "M",
            "N", "O", "P", "Q", "R", "S", "T", "U", "V", "W", "X", "Y", "Z">>
Lowers == <<"a", "b", "c", "d", "e", "f", "g", "h", "i", "j", "k", "l", "m",
            "n", "o", "p", "q", "r", "s", "t", "u", "v", "w", "x", "y", "z">>
Whitespace == {" ", "\t", "\n"}
Digits == {"0", "1", "2", "3", "4", "5", "6", "7", "8", "9"}

LowerChar(c) ==
    IF \E i \in DOMAIN Uppers : Uppers[i] = c
    THEN Lowers[CHOOSE i \in DOMAIN Uppers : Uppers[i] = c]
    ELSE c

\* str.lower(); str.casefold() agrees with it on the ASCII names used here
Lower(s) == [i \in DOMAIN s |-> LowerChar(s[i])]

\* str.startswith(prefix)
StartsWith(s, p) == Len(p) <= Len(s) /\ SubSeq(s, 1, Len(p)) = p

\* str.endswith(suffix)
EndsWith(s, p) == Len(p) <= Len(s) /\ SubSeq(s, Len(s) - Len(p) + 1, Len(s)) = p

\* needle in hay
Contains(needle, hay) ==
    \E i \in 0..(Len(hay) - Len(needle)) : SubSeq(hay, i + 1, i + Len(needle)) = needle

\* str.strip()
Strip(s) ==
    LET keep == {i \in DOMAIN s : s[i] \notin Whitespace}
    IN  IF keep = {} THEN <<>>
        ELSE LET lo == CHOOSE i \in keep : \A j \in keep : i <= j
                 hi == CHOOSE i \in keep : \A j \in keep : j <= i
             IN  SubSeq(s, lo, hi)

\* os.path.splitext(file_name): the extension starts at the last dot, unless
\* only dots precede it
SplitExt(s) ==
    LET dots == {i \in DOMAIN s : s[i] = "."}
    IN  IF dots = {} THEN <<s, <<>>>>
        ELSE LET d == CHOOSE i \in dots : \A j \in dots : j <= i
             IN  IF \E k \in 1..(d - 1) : s[k] # "."
                 THEN <<SubSeq(s, 1, d - 1), SubSeq(s, d, Len(s))>>
                 ELSE <<s, <<>>>>

(***************************************************************************)
(* src/toolsets/toolsets/config.py                                         *)
(***************************************************************************)
IGNORE_dot_only == {<<".">>}
IGNORE == {<<".">>, <<"_">>}
ALL == <<"A", "L", "L">>
DS_Store == <<".", "D", "S", "_", "S", "t", "o", "r", "e">>

\* name.startswith(IGNORE) or name == ".DS_Store"
Ignored(name) == (\E p \in IGNORE : StartsWith(name, p)) \/ name = DS_Store

(***************************************************************************)
(* Filesystem                                                              *)
(***************************************************************************)
NoneVal == "<None>"

KeyDescription == <<"d", "e", "s", "c", "r", "i", "p", "t", "i", "o", "n">>
KeyTags == <<"t", "a", "g", "s">>

\* The value json.load returns for data.json.  form is its Python type.  Of a
\* dict, keys tells which of "description" (with a str value) and "tags" (with
\* a list of str) it holds, and extra holds every other member as a (key,
\* value) pair in the order of the file; a description or tags of another
\* type is a member of extra.  The order of description and tags among the
\* other keys is not kept: dicts are compared as dicts.
EmptyMeta == [form |-> "dict", keys |-> {}, description |-> <<>>, tags |-> <<>>, extra |-> <<>>]
MetaOf(description, tags) ==
    [form |-> "dict", keys |-> {"description", "tags"}, description |-> description,
     tags |-> tags, extra |-> <<>>]
\* a list, a str, an int or None in place of the dict
NonDict(form) == [EmptyMeta EXCEPT !.form = form]

DirNode(listable) ==
    [kind |-> "dir", listable |-> listable, form |-> "none", text |-> <<>>,
     valid |-> FALSE, json |-> EmptyMeta, newline |-> FALSE]
TextFile(text) ==
    [kind |-> "file", listable |-> TRUE, form |-> "text", text |-> text,
     valid |-> FALSE, json |-> EmptyMeta, newline |-> FALSE]
JsonFile(json, newline) ==
    [kind |-> "file", listable |-> TRUE, form |-> "json", text |-> <<>>,
     valid |-> TRUE, json |-> json, newline |-> newline]
CorruptJsonFile ==
    [kind |-> "file", listable |-> TRUE, form |-> "json", text |-> <<>>,
     valid |-> FALSE, json |-> EmptyMeta, newline |-> FALSE]

Root == <<>>
Join(p, name) == Append(p, name)
Dirname(p) == SubSeq(p, 1, Len(p) - 1)
Basename(p) == p[Len(p)]

Exists(f, p) == p \in DOMAIN f
IsDir(f, p) == p \in DOMAIN f /\ f[p].kind = "dir"
IsFile(f, p) == p \in DOMAIN f /\ f[p].kind = "file"

\* os.listdir(p) of a directory that can be listed
ListDir(f, p) == SelectSeq(NameOrder, LAMBDA n : Join(p, n) \in DOMAIN f)
\* os.listdir(p) raises (PermissionError) for a directory without read permission
ListDirRaises(f, p) == ~IsDir(f, p) \/ ~f[p].listable

Range(s) == {s[i] : i \in DOMAIN s}

\* f with node n written at path p
Put(f, p, n) == [q \in DOMAIN f \cup {p} |-> IF q = p THEN n ELSE f[q]]

(***************************************************************************)
(* src/toolsets/toolsets/toolset.py : ToolsetBase                          *)
(***************************************************************************)
meta_file(root) == Join(root, N_data_json)

load_meta_unrecorded(f, root) ==
    IF ~IsFile(f, meta_file(root))
    THEN [meta |-> EmptyMeta, meta_missing |-> TRUE, meta_load_error |-> NoneVal]
    ELSE [meta |-> f[meta_file(root)].json, meta_missing |-> FALSE,
          meta_load_error |-> NoneVal]
\* ToolsetBase.load_meta: the triple (meta, meta_missing, meta_load_error)
load_meta(f, root) ==
    IF ~IsFile(f, meta_file(root))
    THEN [meta |-> EmptyMeta, meta_missing |-> TRUE, meta_load_error |-> NoneVal]
    ELSE IF f[meta_file(root)].form = "json" /\ f[meta_file(root)].valid
         THEN [meta |-> f[meta_file(root)].json, meta_missing |-> FALSE,
               meta_load_error |-> NoneVal]
         ELSE [meta |-> EmptyMeta, meta_missing |-> FALSE,
               meta_load_error |-> "JSONDecodeError"]

NoMessage == [text |-> "", candidates |-> <<>>, detected |-> <<>>, extension |-> <<>>]

\* ToolsetBase.__init__ (and ToolsetInvalid.__init__): the entity built for root
Entity(f, root, type, error_message) ==
    [root |-> root,
     name |-> Basename(root),
     toolset_type |-> type,
     error_message |-> error_message,
     meta |-> load_meta(f, root).meta,
     meta_missing |-> load_meta(f, root).meta_missing,
     meta_load_error |-> load_meta(f, root).meta_load_error]

\* ToolsetBase.user
user_of(t) == Basename(Dirname(t.root))

NoEntity ==
    [root |-> <<>>, name |-> <<>>, toolset_type |-> "", error_message |-> NoMessage,
     meta |-> EmptyMeta, meta_missing |-> FALSE, meta_load_error |-> NoneVal]

Returned(e) == [raised |-> FALSE, exc |-> "", entity |-> e]
Raised(exc) == [raised |-> TRUE, exc |-> exc, entity |-> NoEntity]

(***************************************************************************)
(* src/toolsets/toolsets/toolset.py : ToolsetFactory                       *)
(***************************************************************************)
MultipleMsg ==
    [text |-> "Multiple payload files found.",
     candidates |-> <<N_toolset_nk, N_toolset_py>>, detected |-> <<>>, extension |-> <<>>]
CaseMsg(mismatches) ==
    [text |-> "Payload filename case mismatch.",
     candidates |-> <<>>, detected |-> mismatches, extension |-> <<>>]
UnsupportedMsg(extension) ==
    [text |-> "Unsupported toolset extension",
     candidates |-> <<>>, detected |-> <<>>, extension |-> extension]
NoPayloadMsg ==
    [text |-> "No toolset.nk or toolset.py found in this folder.",
     candidates |-> <<>>, detected |-> <<>>, extension |-> <<>>]

nk_exists_any(f, toolset_root) == Exists(f, Join(toolset_root, N_toolset_nk))
\* nk_exists = os.path.isfile(nk_path)
nk_exists(f, toolset_root) == IsFile(f, Join(toolset_root, N_toolset_nk))
\* py_exists = os.path.isfile(py_path)
py_exists(f, toolset_root) == IsFile(f, Join(toolset_root, N_toolset_py))

payload_choice_prefer_nk(nk, py) ==
    IF nk THEN "nk" ELSE IF py THEN "py" ELSE "none"
\* the three tests on (nk_exists, py_exists), in the order the code makes them
payload_choice(nk, py) ==
    IF nk /\ py THEN "both"
    ELSE IF nk THEN "nk"
    ELSE IF py THEN "py"
    ELSE "none"

\* entries = os.listdir(toolset_root), [] when listing raises
entries_or_empty(f, toolset_root) ==
    IF ListDirRaises(f, toolset_root) THEN <<>> ELSE ListDir(f, toolset_root)

\* the (actual, expected) pairs collected by the loop over ("toolset.nk", "toolset.py")
case_mismatches(entries) ==
    LET lower_entries == {Lower(e) : e \in Range(entries)}
        hit(expected) == expected \in lower_entries /\ expected \notin Range(entries)
        actual(expected) ==
            entries[CHOOSE i \in DOMAIN entries :
                        /\ Lower(entries[i]) = expected
                        /\ \A j \in DOMAIN entries : Lower(entries[j]) = expected => i <= j]
        pair(expected) == IF hit(expected) THEN << <<actual(expected), expected>> >> ELSE <<>>
    IN  pair(N_toolset_nk) \o pair(N_toolset_py)

\* the entries the last loop stops at: those whose splitext name is "toolset"
toolset_named(entries) == SelectSeq(entries, LAMBDA e : SplitExt(e)[1] = N_toolset)

\* ToolsetFactory.create(toolset_root)
create(f, toolset_root) ==
    IF ~IsDir(f, toolset_root) THEN Raised("OSError: No such toolset root")
    ELSE LET choice == payload_choice(nk_exists(f, toolset_root), py_exists(f, toolset_root))
             entries == entries_or_empty(f, toolset_root)
             mismatches == case_mismatches(entries)
         IN  CASE choice = "both" -> Returned(Entity(f, toolset_root, "Warning", MultipleMsg))
               [] choice = "nk" -> Returned(Entity(f, toolset_root, "Nuke", NoMessage))
               [] choice = "py" -> Returned(Entity(f, toolset_root, "Python", NoMessage))
               [] OTHER ->
                    IF mismatches # <<>>
                    THEN Returned(Entity(f, toolset_root, "Warning", CaseMsg(mismatches)))
                    ELSE IF ListDirRaises(f, toolset_root)
                    THEN Raised("PermissionError: Permission denied")
                    ELSE IF toolset_named(ListDir(f, toolset_root)) # <<>>
                    THEN Returned(Entity(f, toolset_root, "Warning",
                            UnsupportedMsg(SplitExt(Head(toolset_named(ListDir(f, toolset_root))))[2])))
                    ELSE Returned(Entity(f, toolset_root, "Warning", NoPayloadMsg))

(***************************************************************************)
(* src/toolsets/toolsets/loader.py : ToolsetsLoader                        *)
(***************************************************************************)
RECURSIVE Flatten(_)
Flatten(seqs) == IF seqs = <<>> THEN <<>> ELSE Head(seqs) \o Flatten(Tail(seqs))


\* not (not os.path.isdir(path) or name.startswith(IGNORE) or name == ".DS_Store")
eligible(f, parent, name) == IsDir(f, Join(parent, name)) /\ ~Ignored(name)

scan_user_no_except(f, user_root) ==
    LET names == SelectSeq(ListDir(f, user_root), LAMBDA n : eligible(f, user_root, n))
        out(n) == create(f, Join(user_root, n))
        bad == {i \in DOMAIN names : out(names[i]).raised}
        stop == IF bad = {} THEN Len(names) + 1
                ELSE CHOOSE i \in bad : \A j \in bad : i <= j
    IN  [raised |-> ListDirRaises(f, user_root) \/ bad # {},
         items |-> IF ListDirRaises(f, user_root) THEN <<>>
                   ELSE [i \in 1..(stop - 1) |-> out(names[i]).entity],
         errors |-> <<>>]
\* the inner loop of load() over one user folder: the toolsets appended to
\* _toolsets[user_name], the (toolset_root, str(e)) pairs appended to
\* _load_errors, and whether os.listdir(user_root) raised
scan_user(f, user_root) ==
    IF ListDirRaises(f, user_root)
    THEN [raised |-> TRUE, items |-> <<>>, errors |-> <<>>]
    ELSE LET names == SelectSeq(ListDir(f, user_root), LAMBDA n : eligible(f, user_root, n))
             out(n) == create(f, Join(user_root, n))
         IN  [raised |-> FALSE,
              items |-> Flatten([i \in DOMAIN names |->
                            IF out(names[i]).raised THEN <<>>
                            ELSE <<out(names[i]).entity>>]),
              errors |-> Flatten([i \in DOMAIN names |->
                            IF out(names[i]).raised
                            THEN << <<Join(user_root, names[i]), out(names[i]).exc>> >>
                            ELSE <<>>])]

\* ToolsetsLoader.load: the new _toolsets (an insertion-ordered dict, as the
\* sequence of its items), the new _load_errors, and whether load raised
load(f) ==
    IF ~IsDir(f, Root)
    THEN [raised |-> FALSE, toolsets |-> <<>>, load_errors |-> <<>>]
    ELSE IF ListDirRaises(f, Root)
    THEN [raised |-> TRUE, toolsets |-> <<>>, load_errors |-> <<>>]
    ELSE LET users == SelectSeq(ListDir(f, Root), LAMBDA n : eligible(f, Root, n))
             bad == {i \in DOMAIN users : scan_user(f, <<users[i]>>).raised}
             last == IF bad = {} THEN Len(users)
                     ELSE CHOOSE i \in bad : \A j \in bad : i <= j
         IN  [raised |-> bad # {},
              toolsets |-> [i \in 1..last |->
                              [user |-> users[i],
                               items |-> scan_user(f, <<users[i]>>).items]],
              load_errors |-> Flatten([i \in 1..last |-> scan_user(f, <<users[i]>>).errors])]

kept_toolsets(ts) == ts
\* load(): self._toolsets = {}
cleared_toolsets(ts) == <<>>

\* load(): self._load_errors = []
cleared_load_errors(errs) == <<>>

\* the dict old after the assignments self._toolsets[user_name] = ... of one
\* pass: a user it held keeps its place and gets the new list, a new user goes
\* last
dict_update(old, new) ==
    LET fresh == SelectSeq(new, LAMBDA e : \A i \in DOMAIN old : old[i].user # e.user)
    IN  [i \in DOMAIN old |->
            IF \E k \in DOMAIN new : new[k].user = old[i].user
            THEN new[CHOOSE k \in DOMAIN new : new[k].user = old[i].user]
            ELSE old[i]]
        \o fresh

\* load() on a loader that holds the catalog ts and the warnings errs: both are
\* emptied, then filled by the pass over the tree
load_state(ts, errs, f) ==
    LET pass == load(f)
    IN  [raised |-> pass.raised,
         toolsets |-> dict_update(cleared_toolsets(ts), pass.toolsets),
         load_errors |-> cleared_load_errors(errs) \o pass.load_errors]

\* ToolsetsLoader.get_users
get_users(ts) == [i \in DOMAIN ts |-> ts[i].user]

\* ToolsetsLoader.get_load_errors
get_load_errors(errs) == errs

\* self._toolsets.get(user_name, [])
toolsets_get(ts, user_name) ==
    IF \E i \in DOMAIN ts : ts[i].user = user_name
    THEN ts[CHOOSE i \in DOMAIN ts : ts[i].user = user_name].items
    ELSE <<>>

\* whether the dict holds key with a value of another type than the schema's
has_extra(meta, key) == \E k \in DOMAIN meta.extra : meta.extra[k].key = key
extra_get(meta, key) == meta.extra[CHOOSE k \in DOMAIN meta.extra : meta.extra[k].key = key].val

\* str(x) of None, an int or a str
str_of(x) == IF x.t = "none" THEN <<"N", "o", "n", "e">> ELSE x.s

\* meta.get("tags", []), as the str items the loop over raw_tags keeps: the
\* items of a list that are str, the characters of a str
meta_get_tags(meta) ==
    IF "tags" \in meta.keys THEN meta.tags
    ELSE IF ~has_extra(meta, KeyTags) THEN <<>>
    ELSE LET x == extra_get(meta, KeyTags)
             strs == SelectSeq(x.items, LAMBDA item : item.t = "str")
         IN  IF x.t = "str" THEN [k \in DOMAIN x.s |-> <<x.s[k]>>]
             ELSE [k \in DOMAIN strs |-> strs[k].s]
\* str(meta.get("description", "")), for a description that is a scalar
meta_get_description(meta) ==
    IF "description" \in meta.keys THEN meta.description
    ELSE IF has_extra(meta, KeyDescription)
    THEN str_of(extra_get(meta, KeyDescription))
    ELSE <<>>

QueryReturned(items) == [raised |-> FALSE, exc |-> "", choices |-> <<>>, items |-> items]
QueryRaised(exc, choices) == [raised |-> TRUE, exc |-> exc, choices |-> choices, items |-> <<>>]

\* a call of the method called name on the loader; the class defines load,
\* reload, get_users, get_load_errors, get_toolset_by and get_toolset, and the
\* two getters without arguments are the ones called this way
loader_call(name, ts, errs) ==
    CASE name = "get_users" -> [raised |-> FALSE, exc |-> "", value |-> get_users(ts)]
      [] name = "get_load_errors" -> [raised |-> FALSE, exc |-> "", value |-> get_load_errors(errs)]
      [] OTHER -> [raised |-> TRUE, exc |-> "AttributeError", value |-> <<>>]

\* Model.get_scan_warnings: return self.toolsets_loader.get_warnings()
get_scan_warnings(ts, errs) == loader_call("get_warnings", ts, errs)

\* Model.get_all_users: [config.ALL] + self.toolsets_loader.get_users()
get_all_users(ts, errs) ==
    LET out == loader_call("get_users", ts, errs)
    IN  IF out.raised THEN out ELSE [out EXCEPT !.value = <<ALL>> \o out.value]

\* users_to_search, for ALL or a user of the catalog
users_to_search(ts, user) ==
    IF user = ALL THEN get_users(ts) ELSE <<user>>

tags_match_exact(normalized_tags, toolset_tags) ==
    \A req \in normalized_tags : req \in Range(toolset_tags)
\* all(any(req in have for have in toolset_tags) for req in normalized_tags)
tags_match(normalized_tags, toolset_tags) ==
    \A req \in normalized_tags : \E k \in DOMAIN toolset_tags : Contains(req, toolset_tags[k])

\* the body of the loop of get_toolset_by: whether the toolset is appended
toolset_matches(toolset, normalized_name, normalized_tags, normalized_description) ==
    LET toolset_name == Lower(toolset.name)
        raw_tags == meta_get_tags(toolset.meta)
        toolset_tags == [k \in DOMAIN SelectSeq(raw_tags, LAMBDA tag : Strip(tag) # <<>>) |->
                            Lower(Strip(SelectSeq(raw_tags, LAMBDA tag : Strip(tag) # <<>>)[k]))]
        toolset_description == Lower(meta_get_description(toolset.meta))
    IN  /\ ~(normalized_name # <<>> /\ ~Contains(normalized_name, toolset_name))
        /\ ~(normalized_tags # {} /\ ~tags_match(normalized_tags, toolset_tags))
        /\ ~(normalized_description # <<>>
             /\ ~Contains(normalized_description, toolset_description))

\* the body of the loop of get_toolset_by: the exception it raises on the
\* toolset, "" if none.  A toolset the name filter skips is not looked at; of
\* the others, .get of a meta that is no dict raises AttributeError, the loop
\* over tags that are None or an int raises TypeError
toolset_raises(toolset, normalized_name) ==
    IF normalized_name # <<>> /\ ~Contains(normalized_name, Lower(toolset.name)) THEN ""
    ELSE IF toolset.meta.form # "dict" THEN "AttributeError"
    ELSE IF has_extra(toolset.meta, KeyTags)
            /\ extra_get(toolset.meta, KeyTags).t \in {"none", "int"}
    THEN "TypeError"
    ELSE ""

\* ToolsetsLoader.get_toolset_by(name, tags, description, user), for arguments
\* of the types it accepts
get_toolset_by(ts, name, tags, description, user) ==
    IF user # ALL /\ user \notin Range(get_users(ts))
    THEN QueryRaised("KeyError: No such user", get_users(ts))
    ELSE LET normalized_name == Lower(Strip(name))
             normalized_description == Lower(Strip(description))
             normalized_tags == {Lower(Strip(t)) : t \in {x \in Range(tags) : Strip(x) # <<>>}}
             searched == users_to_search(ts, user)
             visited == Flatten([i \in DOMAIN searched |-> toolsets_get(ts, searched[i])])
             failing == SelectSeq(visited, LAMBDA toolset :
                                     toolset_raises(toolset, normalized_name) # "")
         IN  IF failing # <<>>
             THEN QueryRaised(toolset_raises(Head(failing), normalized_name), <<>>)
             ELSE QueryReturned(
                Flatten([i \in DOMAIN searched |->
                    SelectSeq(toolsets_get(ts, searched[i]),
                              LAMBDA toolset : toolset_matches(toolset, normalized_name,
                                                   normalized_tags, normalized_description))]))

\* ToolsetsLoader.get_toolset(user_name, toolset_name)
get_toolset(ts, user_name, toolset_name) ==
    LET user == Strip(user_name)
        target == Lower(Strip(toolset_name))
        found == get_toolset_by(ts, <<>>, <<>>, <<>>, user)
        hits == SelectSeq(found.items, LAMBDA t : Lower(Strip(t.name)) = target)
    IN  IF found.raised THEN found
        ELSE IF hits # <<>> THEN QueryReturned(<<Head(hits)>>)
        ELSE QueryRaised("KeyError: No such toolset",
                         [k \in DOMAIN found.items |-> found.items[k].name])

(***************************************************************************)
(* src/toolsets/toolsets/saver.py                                          *)
(***************************************************************************)
\* Python values passed as tags and toolset_data: None, a str, a list (or
\* tuple) of str and int elements, an int
PyNone == [t |-> "none", s |-> <<>>, items |-> <<>>]
PyStr(s) == [t |-> "str", s |-> s, items |-> <<>>]
PyInt(digits) == [t |-> "int", s |-> digits, items |-> <<>>]
PyList(items) == [t |-> "list", s |-> <<>>, items |-> items]

\* str(x) of a str or int
py_str(x) == x.s
\* bool(x) of None or a str
truthy(x) == x.t # "none" /\ ~(x.t = "str" /\ x.s = <<>>)

RECURSIVE Split(_, _)
\* str.split(sep) with a one-character separator
Split(s, sep) ==
    IF \E i \in DOMAIN s : s[i] = sep
    THEN LET i == CHOOSE k \in DOMAIN s : s[k] = sep /\ \A j \in DOMAIN s : s[j] = sep => k <= j
         IN  <<SubSeq(s, 1, i - 1)>> \o Split(SubSeq(s, i + 1, Len(s)), sep)
    ELSE <<s>>

\* str.replace("\t", "    ")
ReplaceTabs(s) ==
    Flatten([i \in DOMAIN s |-> IF s[i] = "\t" THEN <<" ", " ", " ", " ">> ELSE <<s[i]>>])

StripAll(parts) ==
    LET kept == SelectSeq(parts, LAMBDA x : Strip(x) # <<>>)
    IN  [k \in DOMAIN kept |-> Strip(kept[k])]

tags_accepted_list_only(tags) ==
    tags.t \in {"none", "str"}
       \/ (tags.t = "list" /\ \A k \in DOMAIN tags.items : tags.items[k].t = "str")
\* save(): whether the tags argument has a type the normalization accepts
tags_accepted(tags) == tags.t \in {"none", "str", "list"}

\* save(): tags_list, the tags normalized to a list of str
tags_list(tags) ==
    CASE tags.t = "none" -> <<>>
      [] tags.t = "str" -> StripAll(Split(tags.s, ","))
      [] tags.t = "list" -> StripAll([k \in DOMAIN tags.items |-> py_str(tags.items[k])])
      [] OTHER -> <<>>

\* BaseToolsetSaver._assemble_toolset_root
assemble_toolset_root(user, name) == <<user, name>>

NameMsg == "ValueError: Please enter a name."
TagsTypeMsg == "ValueError: tags must be list[str] or comma-separated str"
TagsListMsg == "ValueError: tags must be list[str]"
DuplicateMsg == "ValueError: The toolset already exists in your account. Please choose another name"
SelectionMsg == "ValueError: Please select the nodes to export as a new toolset."
ScriptMsg == "ValueError: Please enter a script."
OSErrorMsg == "OSError"

validate_base_no_duplicate_check(f, user, name, tags) ==
    IF name = <<>> THEN NameMsg
    ELSE IF ~(tags.t = "list" /\ \A k \in DOMAIN tags.items : tags.items[k].t = "str")
    THEN TagsListMsg
    ELSE ""
\* BaseToolsetSaver.validate: the message of the ValueError raised, "" if none
validate_base(f, user, name, tags) ==
    IF name = <<>> THEN NameMsg
    ELSE IF ~(tags.t = "list" /\ \A k \in DOMAIN tags.items : tags.items[k].t = "str")
    THEN TagsListMsg
    ELSE IF IsDir(f, assemble_toolset_root(user, name)) THEN DuplicateMsg
    ELSE ""

\* ToolsetSaverNK.validate
validate_nk(f, h, user, name, tags) ==
    IF validate_base(f, user, name, tags) # "" THEN validate_base(f, user, name, tags)
    ELSE IF h.present /\ ~h.selection THEN SelectionMsg
    ELSE ""

\* ToolsetSaverPY.validate
validate_py(f, user, name, tags, toolset_data) ==
    IF validate_base(f, user, name, tags) # "" THEN validate_base(f, user, name, tags)
    ELSE IF ~truthy(toolset_data) THEN ScriptMsg
    ELSE ""

validate(f, h, kind, user, name, tags, toolset_data) ==
    IF kind = "Nuke" THEN validate_nk(f, h, user, name, tags)
    ELSE validate_py(f, user, name, tags, toolset_data)

\* os.makedirs(toolset_root): the missing ancestors and the folder are created
makedirs(f, path) ==
    [q \in DOMAIN f \cup {SubSeq(path, 1, k) : k \in 0..Len(path)} |->
        IF q \in DOMAIN f THEN f[q] ELSE DirNode(TRUE)]
\* os.makedirs raises when the path, or an ancestor, exists and is no directory
makedirs_raises(f, path) ==
    \E k \in 0..Len(path) : IsFile(f, SubSeq(path, 1, k))

\* BaseToolsetSaver._write_meta: json.dump(metadata, file, indent=4)
written_meta(description, tags) == JsonFile(MetaOf(description, tags), FALSE)

\* the text the .nk payload gets from nuke.nodeCopy
SelectionText == <<"B", "l", "u", "r", " ", "{">>

\* Where an I/O error strikes during one save, if anywhere: creating the folder,
\* opening or writing data.json, opening or writing the payload file
IoFailures == {"none", "mkdir", "meta_open", "meta_write", "payload_open", "payload_write"}

SaveOk(f) == [fs |-> f, exc |-> ""]
SaveRaised(f, exc) == [fs |-> f, exc |-> exc]

\* BaseToolsetSaver._write_meta; an error while writing leaves a truncated file
write_meta(f, toolset_root, description, tags, io_fail) ==
    CASE io_fail = "meta_open" -> SaveRaised(f, OSErrorMsg)
      [] io_fail = "meta_write" -> SaveRaised(Put(f, meta_file(toolset_root), CorruptJsonFile), OSErrorMsg)
      [] OTHER -> SaveOk(Put(f, meta_file(toolset_root), written_meta(description, tags)))

\* ToolsetSaverNK.write_toolset_data and ToolsetSaverPY.write_toolset_data
write_toolset_data(f, h, kind, toolset_root, toolset_data, io_fail) ==
    LET path == Join(toolset_root, IF kind = "Nuke" THEN N_toolset_nk ELSE N_toolset_py)
        text == IF kind = "Nuke" THEN SelectionText ELSE ReplaceTabs(toolset_data.s)
    IN  CASE kind = "Nuke" /\ ~h.present -> SaveOk(f)
          [] io_fail = "payload_open" -> SaveRaised(f, OSErrorMsg)
          [] io_fail = "payload_write" -> SaveRaised(Put(f, path, TextFile(<<>>)), OSErrorMsg)
          [] OTHER -> SaveOk(Put(f, path, TextFile(text)))

write_files_payload_first(f, h, kind, toolset_root, description, tags, toolset_data, io_fail) ==
    LET data == write_toolset_data(f, h, kind, toolset_root, toolset_data, io_fail)
    IN  IF data.exc # "" THEN data
        ELSE write_meta(data.fs, toolset_root, description, tags, io_fail)
\* save(): data.json first, the payload after it
write_files(f, h, kind, toolset_root, description, tags, toolset_data, io_fail) ==
    LET meta == write_meta(f, toolset_root, description, tags, io_fail)
    IN  IF meta.exc # "" THEN meta
        ELSE write_toolset_data(meta.fs, h, kind, toolset_root, toolset_data, io_fail)

\* BaseToolsetSaver.save of a saver of the given kind and user
save(f, h, kind, user, name, description, tags, toolset_data, io_fail) ==
    LET normalized == tags_list(tags)
        as_list == PyList([k \in DOMAIN normalized |-> PyStr(normalized[k])])
        toolset_root == assemble_toolset_root(user, name)
        invalid == validate(f, h, kind, user, name, as_list, toolset_data)
    IN  IF ~tags_accepted(tags) THEN SaveRaised(f, TagsTypeMsg)
        ELSE IF invalid # "" THEN SaveRaised(f, invalid)
        ELSE IF ~IsDir(f, toolset_root) /\ (makedirs_raises(f, toolset_root) \/ io_fail = "mkdir")
        THEN SaveRaised(f, OSErrorMsg)
        ELSE write_files(IF IsDir(f, toolset_root) THEN f ELSE makedirs(f, toolset_root),
                         h, kind, toolset_root, description, normalized, toolset_data, io_fail)

(***************************************************************************)
(* The text of data.json: json.dump(obj, file, indent=4) and json.load      *)
(***************************************************************************)
Quote == "\""
Backslash == "\\"

\* json.dump of the characters of a str: quotes, backslashes and control
\* characters are escaped
escape(s) ==
    Flatten([i \in DOMAIN s |->
        CASE s[i] = Quote -> <<Backslash, Quote>>
          [] s[i] = Backslash -> <<Backslash, Backslash>>
          [] s[i] = "\n" -> <<Backslash, "n">>
          [] s[i] = "\t" -> <<Backslash, "t">>
          [] OTHER -> <<s[i]>>])

dump_str(s) == <<Quote>> \o escape(s) \o <<Quote>>

Spaces(n) == [i \in 1..n |-> " "]

RECURSIVE JoinLines(_)
\* the items, separated by a comma and a line break
JoinLines(items) ==
    IF Len(items) = 1 THEN items[1]
    ELSE items[1] \o <<",", "\n">> \o JoinLines(Tail(items))

\* a list of str at nesting level 1
dump_list(tags) ==
    IF tags = <<>> THEN <<"[", "]">>
    ELSE <<"[", "\n">>
         \o JoinLines([k \in DOMAIN tags |-> Spaces(8) \o dump_str(tags[k])])
         \o <<"\n">> \o Spaces(4) \o <<"]">>

\* a str, an int or None as json.dump writes it
dump_scalar(x) ==
    CASE x.t = "str" -> dump_str(x.s)
      [] x.t = "int" -> x.s
      [] OTHER -> <<"n", "u", "l", "l">>

\* a value of a member other than description and tags, at nesting level 1
dump_value(x) ==
    IF x.t # "list" THEN dump_scalar(x)
    ELSE IF x.items = <<>> THEN <<"[", "]">>
    ELSE <<"[", "\n">>
         \o JoinLines([k \in DOMAIN x.items |-> Spaces(8) \o dump_scalar(x.items[k])])
         \o <<"\n">> \o Spaces(4) \o <<"]">>

\* json.dump(meta, file, indent=4) of a dict
json_dumps(meta) ==
    LET d == IF "description" \in meta.keys
             THEN << Spaces(4) \o dump_str(KeyDescription) \o <<":", " ">>
                     \o dump_str(meta.description) >>
             ELSE <<>>
        t == IF "tags" \in meta.keys
             THEN << Spaces(4) \o dump_str(KeyTags) \o <<":", " ">> \o dump_list(meta.tags) >>
             ELSE <<>>
        e == [k \in DOMAIN meta.extra |->
                Spaces(4) \o dump_str(meta.extra[k].key) \o <<":", " ">>
                \o dump_value(meta.extra[k].val)]
    IN  IF d \o t \o e = <<>> THEN <<"{", "}">>
        ELSE <<"{", "\n">> \o JoinLines(d \o t \o e) \o <<"\n", "}">>

\* the bytes of a data.json node: the text a person typed, or the dump of what
\* the engine wrote
FileText(node) ==
    IF node.form = "json" /\ node.valid /\ node.text = <<>>
    THEN json_dumps(node.json) \o (IF node.newline THEN <<"\n">> ELSE <<>>)
    ELSE node.text

JsonWhitespace == {" ", "\n", "\t", "\r"}
JsonPunctuation == {"{", "}", "[", "]", ":", ","}
ErrorToken == [k |-> "error", v |-> <<>>]

RECURSIVE ScanString(_, _, _)
\* the str literal whose opening quote stands before position i
ScanString(s, i, acc) ==
    IF i > Len(s) THEN [ok |-> FALSE, val |-> <<>>, next |-> i]
    ELSE IF s[i] = Quote THEN [ok |-> TRUE, val |-> acc, next |-> i + 1]
    ELSE IF s[i] = Backslash
    THEN IF i + 1 > Len(s) THEN [ok |-> FALSE, val |-> <<>>, next |-> i]
         ELSE CASE s[i + 1] = Quote -> ScanString(s, i + 2, Append(acc, Quote))
                [] s[i + 1] = Backslash -> ScanString(s, i + 2, Append(acc, Backslash))
                [] s[i + 1] = "n" -> ScanString(s, i + 2, Append(acc, "\n"))
                [] s[i + 1] = "t" -> ScanString(s, i + 2, Append(acc, "\t"))
                [] OTHER -> [ok |-> FALSE, val |-> <<>>, next |-> i]
    ELSE IF s[i] \in {"\n", "\t", "\r"} THEN [ok |-> FALSE, val |-> <<>>, next |-> i]
    ELSE ScanString(s, i + 1, Append(acc, s[i]))

\* the last position of the run of digits that starts at position i
DigitsEnd(s, i) ==
    CHOOSE j \in i..Len(s) :
        /\ \A k \in i..j : s[k] \in Digits
        /\ (j = Len(s) \/ s[j + 1] \notin Digits)

\* the first position from i on that holds no whitespace (past the end if
\* there is none)
SkipWhitespace(s, i) ==
    CHOOSE j \in i..(Len(s) + 1) :
        /\ \A k \in i..(j - 1) : s[k] \in JsonWhitespace
        /\ (j = Len(s) + 1 \/ s[j] \notin JsonWhitespace)

RECURSIVE Tokens(_, _)
\* the JSON tokens of s from position i on: punctuation (p), str literals (s),
\* unsigned integers (n) and null (z)
Tokens(s, i) ==
    IF i > Len(s) THEN <<>>
    ELSE IF s[i] \in JsonWhitespace THEN Tokens(s, SkipWhitespace(s, i))
    ELSE IF s[i] \in JsonPunctuation THEN <<[k |-> "p", v |-> <<s[i]>>]>> \o Tokens(s, i + 1)
    ELSE IF s[i] = Quote
    THEN LET r == ScanString(s, i + 1, <<>>)
         IN  IF r.ok THEN <<[k |-> "s", v |-> r.val]>> \o Tokens(s, r.next)
             ELSE <<ErrorToken>>
    ELSE IF s[i] \in Digits
    THEN <<[k |-> "n", v |-> SubSeq(s, i, DigitsEnd(s, i))]>> \o Tokens(s, DigitsEnd(s, i) + 1)
    ELSE IF i + 3 <= Len(s) /\ SubSeq(s, i, i + 3) = <<"n", "u", "l", "l">>
    THEN <<[k |-> "z", v |-> <<>>]>> \o Tokens(s, i + 4)
    ELSE <<ErrorToken>>

IsP(toks, i, c) == i <= Len(toks) /\ toks[i] = [k |-> "p", v |-> <<c>>]
IsS(toks, i) == i <= Len(toks) /\ toks[i].k = "s"
IsScalar(toks, i) == i <= Len(toks) /\ toks[i].k \in {"s", "n", "z"}
NoParse == [ok |-> FALSE, val |-> <<>>, next |-> 0]

\* the Python value of a scalar token
scalar_value(tok) ==
    CASE tok.k = "s" -> PyStr(tok.v)
      [] tok.k = "n" -> PyInt(tok.v)
      [] OTHER -> PyNone

RECURSIVE ParseItems(_, _, _)
\* the items of a list, from its first item at position i to the bracket
ParseItems(toks, i, acc) ==
    IF ~IsScalar(toks, i) THEN NoParse
    ELSE IF IsP(toks, i + 1, "]")
    THEN [ok |-> TRUE, val |-> PyList(Append(acc, scalar_value(toks[i]))), next |-> i + 2]
    ELSE IF IsP(toks, i + 1, ",") THEN ParseItems(toks, i + 2, Append(acc, scalar_value(toks[i])))
    ELSE NoParse

\* the value that starts at position i: a scalar or a list of scalars
ParseValue(toks, i) ==
    IF IsScalar(toks, i) THEN [ok |-> TRUE, val |-> scalar_value(toks[i]), next |-> i + 1]
    ELSE IF IsP(toks, i, "[") /\ IsP(toks, i + 1, "]")
    THEN [ok |-> TRUE, val |-> PyList(<<>>), next |-> i + 2]
    ELSE IF IsP(toks, i, "[") THEN ParseItems(toks, i + 1, <<>>)
    ELSE NoParse

\* whether x is a list of str
IsStrList(x) == x.t = "list" /\ \A k \in DOMAIN x.items : x.items[k].t = "str"

\* meta[key] = x: an existing key keeps its place, a new one goes last
set_member(meta, key, x) ==
    LET others == SelectSeq(meta.extra, LAMBDA m : m.key # key)
        held == \E k \in DOMAIN meta.extra : meta.extra[k].key = key
    IN  IF key = KeyDescription /\ x.t = "str"
        THEN [meta EXCEPT !.keys = @ \cup {"description"}, !.description = x.s,
                          !.extra = others]
        ELSE IF key = KeyTags /\ IsStrList(x)
        THEN [meta EXCEPT !.keys = @ \cup {"tags"},
                          !.tags = [k \in DOMAIN x.items |-> x.items[k].s],
                          !.extra = others]
        ELSE [meta EXCEPT
                !.keys = @ \ (IF key = KeyDescription THEN {"description"}
                              ELSE IF key = KeyTags THEN {"tags"} ELSE {}),
                !.description = IF key = KeyDescription THEN <<>> ELSE @,
                !.tags = IF key = KeyTags THEN <<>> ELSE @,
                !.extra = IF held
                          THEN [k \in DOMAIN @ |->
                                   IF @[k].key = key THEN [key |-> key, val |-> x] ELSE @[k]]
                          ELSE Append(@, [key |-> key, val |-> x])]

RECURSIVE ParseMembers(_, _, _)
\* the members of an object, from the key at position i to the closing brace; a
\* repeated key keeps its last value
ParseMembers(toks, i, acc) ==
    IF ~(IsS(toks, i) /\ IsP(toks, i + 1, ":")) THEN NoParse
    ELSE LET value == ParseValue(toks, i + 2)
             now == set_member(acc, toks[i].v, value.val)
         IN  IF ~value.ok THEN NoParse
             ELSE IF IsP(toks, value.next, "}")
             THEN [ok |-> value.next = Len(toks), val |-> now, next |-> value.next + 1]
             ELSE IF IsP(toks, value.next, ",") THEN ParseMembers(toks, value.next + 1, now)
             ELSE NoParse

\* json.load of a document: whether it parses, and the value read.  The
\* documents read are scalars, lists of scalars, and objects whose values are
\* scalars or lists of scalars.
json_loads(text) ==
    LET toks == Tokens(text, 1)
        v == ParseValue(toks, 1)
    IN  IF IsP(toks, 1, "{")
        THEN IF IsP(toks, 2, "}") THEN [ok |-> Len(toks) = 2, meta |-> EmptyMeta]
             ELSE LET r == ParseMembers(toks, 2, EmptyMeta)
                  IN  IF r.ok THEN [ok |-> TRUE, meta |-> r.val]
                      ELSE [ok |-> FALSE, meta |-> EmptyMeta]
        ELSE IF v.ok /\ v.next = Len(toks) + 1 THEN [ok |-> TRUE, meta |-> NonDict(v.val.t)]
        ELSE [ok |-> FALSE, meta |-> EmptyMeta]

\* a data.json somebody wrote by hand, holding text
HandWritten(text) ==
    [kind |-> "file", listable |-> TRUE, form |-> "json", text |-> text,
     valid |-> json_loads(text).ok, json |-> json_loads(text).meta, newline |-> FALSE]

(***************************************************************************)
(* src/toolsets/toolsets/toolset.py : metadata and payload updates          *)
(***************************************************************************)
\* ToolsetBase.toolset_file: the payload path, found FALSE for the result ""
toolset_file(f, root) ==
    IF IsFile(f, Join(root, N_toolset_nk))
    THEN [found |-> TRUE, path |-> Join(root, N_toolset_nk)]
    ELSE IF IsFile(f, Join(root, N_toolset_py))
    THEN [found |-> TRUE, path |-> Join(root, N_toolset_py)]
    ELSE [found |-> FALSE, path |-> <<>>]

\* open(path, "w") raises when the folder is gone or the path is a directory
open_w_raises(f, path) == ~IsDir(f, Dirname(path)) \/ IsDir(f, path)

update_meta_known_keys_only(f, t, description, tags, io_fail) ==
    LET changed == [t EXCEPT !.meta = MetaOf(description, tags)]
    IN  IF t.meta.form # "dict" THEN [fs |-> f, entity |-> t, exc |-> "TypeError"]
        ELSE IF open_w_raises(f, meta_file(t.root)) \/ io_fail # "none"
        THEN [fs |-> f, entity |-> changed, exc |-> OSErrorMsg]
        ELSE [fs |-> Put(f, meta_file(t.root), JsonFile(MetaOf(description, tags), TRUE)),
              entity |-> [changed EXCEPT !.meta_missing = FALSE, !.meta_load_error = ""],
              exc |-> ""]
update_meta_keep_file(f, t, description, tags, io_fail) ==
    LET meta == [t.meta EXCEPT !.keys = @ \cup {"description", "tags"},
                               !.description = description, !.tags = tags]
        changed == [t EXCEPT !.meta = meta, !.meta_missing = FALSE, !.meta_load_error = ""]
    IN  IF IsFile(f, meta_file(t.root)) THEN [fs |-> f, entity |-> changed, exc |-> ""]
        ELSE [fs |-> Put(f, meta_file(t.root), JsonFile(meta, TRUE)),
              entity |-> changed, exc |-> ""]
\* ToolsetBase.update_meta on the entity t: the dict held in memory gets the two
\* keys first (item assignment raises TypeError on a meta that is no dict),
\* then the file is opened and written; an error while writing leaves a
\* truncated file
update_meta(f, t, description, tags, io_fail) ==
    LET meta == set_member(set_member(t.meta, KeyDescription, PyStr(description)),
                           KeyTags, PyList([k \in DOMAIN tags |-> PyStr(tags[k])]))
        changed == [t EXCEPT !.meta = meta]
    IN  IF t.meta.form # "dict" THEN [fs |-> f, entity |-> t, exc |-> "TypeError"]
        ELSE IF open_w_raises(f, meta_file(t.root)) \/ io_fail = "meta_open"
        THEN [fs |-> f, entity |-> changed, exc |-> OSErrorMsg]
        ELSE IF io_fail = "meta_write"
        THEN [fs |-> Put(f, meta_file(t.root), CorruptJsonFile),
              entity |-> changed, exc |-> OSErrorMsg]
        ELSE [fs |-> Put(f, meta_file(t.root), JsonFile(meta, TRUE)),
              entity |-> [changed EXCEPT !.meta_missing = FALSE, !.meta_load_error = ""],
              exc |-> ""]

toolset_type_from_disk(f, t) ==
    CASE nk_exists(f, t.root) /\ ~py_exists(f, t.root) -> "Nuke"
      [] py_exists(f, t.root) /\ ~nk_exists(f, t.root) -> "Python"
      [] OTHER -> "Warning"
\* toolset_type() of ToolsetNK, ToolsetPY and ToolsetInvalid: a constant of the
\* class the factory chose, whatever the folder holds now
toolset_type(f, t) == t.toolset_type

ensure_newline_always(text) == text \o <<"\n">>
\* toolset_data with a trailing newline ensured
ensure_newline(text) ==
    IF EndsWith(text, <<"\n">>) THEN text ELSE text \o <<"\n">>

\* ToolsetNK.update_toolset_data: nuke.nodeCopy of a non-empty selection
update_toolset_data_nk(f, h, t, io_fail) ==
    IF ~(h.present /\ h.selection) THEN [fs |-> f, exc |-> ""]
    ELSE IF open_w_raises(f, Join(t.root, N_toolset_nk)) \/ io_fail = "payload_open"
    THEN [fs |-> f, exc |-> "RuntimeError"]
    ELSE IF io_fail = "payload_write"
    THEN [fs |-> Put(f, Join(t.root, N_toolset_nk), TextFile(<<>>)), exc |-> "RuntimeError"]
    ELSE [fs |-> Put(f, Join(t.root, N_toolset_nk), TextFile(SelectionText)), exc |-> ""]

\* ToolsetPY.update_toolset_data: written to self.toolset_file
update_toolset_data_py(f, t, toolset_data, io_fail) ==
    LET text == ensure_newline(ReplaceTabs(py_str(toolset_data)))
        target == toolset_file(f, t.root)
    IN  IF toolset_data.t = "none" THEN [fs |-> f, exc |-> ""]
        ELSE IF ~target.found \/ io_fail = "payload_open" THEN [fs |-> f, exc |-> OSErrorMsg]
        ELSE IF io_fail = "payload_write"
        THEN [fs |-> Put(f, target.path, TextFile(<<>>)), exc |-> OSErrorMsg]
        ELSE [fs |-> Put(f, target.path, TextFile(text)), exc |-> ""]

update_toolset_data_invalid_writes(f, t, toolset_data, io_fail) ==
    IF toolset_data.t = "none" \/ ~IsDir(f, t.root) THEN [fs |-> f, exc |-> ""]
    ELSE [fs |-> Put(f, Join(t.root, N_toolset_py), TextFile(py_str(toolset_data))), exc |-> ""]
\* ToolsetInvalid.update_toolset_data
update_toolset_data_invalid(f, t, toolset_data, io_fail) == [fs |-> f, exc |-> ""]

\* update_toolset_data of the entity's class
update_toolset_data(f, h, t, toolset_data, io_fail) ==
    CASE t.toolset_type = "Nuke" -> update_toolset_data_nk(f, h, t, io_fail)
      [] t.toolset_type = "Python" -> update_toolset_data_py(f, t, toolset_data, io_fail)
      [] OTHER -> update_toolset_data_invalid(f, t, toolset_data, io_fail)

(***************************************************************************)
(* src/toolsets/toolsets/toolset.py : execute                               *)
(***************************************************************************)
\* c.isalnum() on the ASCII characters used here
IsAlnum(c) == c \in Range(Uppers) \cup Range(Lowers) \cup Digits

\* safe_name and unique_name of ToolsetPY.execute
safe_name(name) == [i \in DOMAIN name |-> IF IsAlnum(name[i]) THEN name[i] ELSE "_"]
unique_name(name) == <<"t", "o", "o", "l", "s", "e", "t", "_">> \o safe_name(name)

\* What the interpreter does with a payload text.  The scripts used are built
\* from these pieces:
\*   "N=1"             a module-level assignment
\*   "def execute():"  the entry point;  "execute=1" a name that is no callable
\*   "1/0"             the body of an entry point that raises ZeroDivisionError
\*   "def execute(:"   a syntax error
ScriptSyntaxError(text) == Contains(<<"d", "e", "f", " ", "e", "x", "e", "c", "u", "t", "e", "(", ":">>, text)
ScriptDefinesEntry(text) == Contains(<<"d", "e", "f", " ", "e", "x", "e", "c", "u", "t", "e", "(", ")", ":">>, text)
ScriptEntryNotCallable(text) == Contains(<<"e", "x", "e", "c", "u", "t", "e", "=", "1">>, text)
ScriptEntryRaises(text) == Contains(<<"1", "/", "0">>, text)
ScriptGlobals(text) ==
    (IF Contains(<<"N", "=", "1">>, text) THEN {"N"} ELSE {})
    \cup (IF ScriptDefinesEntry(text) \/ ScriptEntryNotCallable(text) THEN {"execute"} ELSE {})

\* importlib.util.spec_from_file_location gives None unless the path has a
\* suffix of Python source; toolset_file is "" or the .nk path when the
\* folder changed since classification
spec_is_none(target) == ~target.found \/ ~EndsWith(Basename(target.path), <<".", "p", "y">>)

module_from_cache(modules, name) ==
    IF name \in DOMAIN modules THEN modules[name] ELSE {}
\* importlib.util.module_from_spec: the namespace of the new module object
module_from_spec(modules, name) == {}

\* sys.modules[unique_name] = module
register(modules, name, namespace) ==
    [n \in DOMAIN modules \cup {name} |-> IF n = name THEN namespace ELSE modules[n]]

finally_pop_on_success(modules, name, exc) ==
    IF exc = "" THEN [n \in DOMAIN modules \ {name} |-> modules[n]] ELSE modules
\* finally: sys.modules.pop(unique_name, None), whatever exception is in flight
finally_pop(modules, name, exc) == [n \in DOMAIN modules \ {name} |-> modules[n]]

NoPaste == [called |-> FALSE, found |-> FALSE, path |-> <<>>]
ExecuteOut(h, exc, message) ==
    [host |-> h, exc |-> exc, message |-> message, paste |-> NoPaste,
     script_ran |-> FALSE, registered |-> FALSE, saw_stale |-> FALSE,
     entry_invoked |-> FALSE, entry_raised |-> FALSE]

\* ToolsetNK.execute; host_fail: nuke.nodePaste raises
execute_nk(f, h, t, host_fail) ==
    IF ~h.present THEN ExecuteOut(h, "", NoMessage)
    ELSE [ExecuteOut(h, IF host_fail THEN "RuntimeError" ELSE "", NoMessage)
            EXCEPT !.paste = [called |-> TRUE, found |-> toolset_file(f, t.root).found,
                              path |-> toolset_file(f, t.root).path]]

\* ToolsetPY.execute.  saw_stale: the script finds module-level state of an
\* earlier run, in its own namespace or in a module an earlier run left in
\* sys.modules
execute_py(f, h, t) ==
    LET target == toolset_file(f, t.root)
        name == unique_name(t.name)
        namespace == module_from_spec(h.modules, name)
        registered == register(h.modules, name, namespace)
        text == f[target.path].text
        exc == CASE ScriptSyntaxError(text) -> "SyntaxError"
                 [] ~ScriptDefinesEntry(text) -> "AttributeError"
                 [] ScriptEntryRaises(text) -> "ZeroDivisionError"
                 [] OTHER -> ""
    IN  IF spec_is_none(target) THEN ExecuteOut(h, "ImportError", NoMessage)
        ELSE [host |-> [h EXCEPT !.modules = finally_pop(registered, name, exc),
                                 !.ran = @ \cup {name}],
              exc |-> exc,
              message |-> NoMessage,
              paste |-> NoPaste,
              script_ran |-> TRUE,
              registered |-> name \in DOMAIN registered,
              saw_stale |-> namespace # {}
                            \/ \E n \in DOMAIN h.modules \ {name} : n \in h.ran,
              entry_invoked |-> ~ScriptSyntaxError(text) /\ ScriptDefinesEntry(text),
              entry_raised |-> exc = "ZeroDivisionError"]

\* ToolsetInvalid.execute
execute_invalid(f, h, t) == ExecuteOut(h, "RuntimeError", t.error_message)

\* execute of the entity's class
execute(f, h, t, host_fail) ==
    CASE t.toolset_type = "Nuke" -> execute_nk(f, h, t, host_fail)
      [] t.toolset_type = "Python" -> execute_py(f, h, t)
      [] OTHER -> execute_invalid(f, h, t)

\* Controller.insert_toolset: the error of execute is caught and shown in a
\* dialog; nothing propagates
insert_toolset(f, h, t, host_fail) ==
    LET out == execute(f, h, t, host_fail)
    IN  [out EXCEPT !.exc = "",
                    !.message = IF out.exc = "" THEN NoMessage
                                ELSE [NoMessage EXCEPT !.text = "Failed to run"]]

(***************************************************************************)
(* Classification of one toolset folder: every arrangement of its entries  *)
(***************************************************************************)
FRoot == <<N_alice, N_Blur>>
FMissing == <<N_alice, N_Grade>>

FactoryNames ==
    {N_toolset_nk, N_toolset_py, N_Toolset_PY, N_TOOLSET_NK,
     N_toolset_txt, N_toolset, N_toolset_tar_gz, N_data_json}

\* a payload name may also be taken by a sub-directory
FactoryKinds(n) ==
    IF n \in {N_toolset_nk, N_toolset_py} THEN {"absent", "file", "dir"}
    ELSE {"absent", "file"}

SampleMeta == MetaOf(<<"s", "o", "f", "t">>, << <<"b", "l", "u", "r">> >>)

FactoryNode(n, kind) ==
    IF kind = "dir" THEN DirNode(TRUE)
    ELSE IF n = N_data_json THEN JsonFile(SampleMeta, TRUE)
    ELSE TextFile(<<"x">>)

FactoryFs(kinds, listable) ==
    LET present == {n \in FactoryNames : kinds[n] # "absent"}
        paths == {Root, <<N_alice>>, FRoot} \cup {Join(FRoot, n) : n \in present}
    IN  [p \in paths |->
            IF p = FRoot THEN DirNode(listable)
            ELSE IF Len(p) = 3 THEN FactoryNode(p[3], kinds[p[3]])
            ELSE DirNode(TRUE)]

NoHost == [present |-> FALSE, selection |-> FALSE]
NoRet == [op |-> "none"]

FactoryInit ==
    /\ \E listable \in BOOLEAN :
       \E kinds \in [FactoryNames -> {"absent", "file", "dir"}] :
          /\ \A n \in FactoryNames : kinds[n] \in FactoryKinds(n)
          /\ fs = FactoryFs(kinds, listable)
    /\ host = NoHost
    /\ toolsets = <<>>
    /\ load_errors = <<>>
    /\ created = {}
    /\ ret = NoRet

\* a call of ToolsetFactory.create on the folder, or on a path that is no directory
FactoryCreate ==
    /\ \E root \in {FRoot, FMissing} :
          ret' = [op |-> "create", root |-> root, out |-> create(fs, root)]
    /\ UNCHANGED <<fs, host, toolsets, load_errors, created>>

FactoryNext == FactoryCreate

SpecFactory == FactoryInit /\ [][FactoryNext]_vars

----
Created == ret.op = "create" /\ IsDir(fs, ret.root)
NkFile == IsFile(fs, Join(ret.root, N_toolset_nk))
PyFile == IsFile(fs, Join(ret.root, N_toolset_py))
Listable == fs[ret.root].listable
ReturnedType(type) == ~ret.out.raised /\ ret.out.entity.toolset_type = type

\* C1: a folder holding both toolset.nk and toolset.py as files is classified
\* Invalid (kind "Warning") with a message naming both candidates, never Graph
\* or Script, whatever else the folder holds.
C1_BothPayloadsInvalid ==
    (Created /\ NkFile /\ PyFile) =>
        /\ ReturnedType("Warning")
        /\ ret.out.entity.error_message.text = "Multiple payload files found."
        /\ Range(ret.out.entity.error_message.candidates) = {N_toolset_nk, N_toolset_py}

C1_Witness ==
    /\ Created /\ NkFile /\ PyFile
    /\ IsFile(fs, Join(ret.root, N_Toolset_PY))
    /\ IsFile(fs, Join(ret.root, N_toolset_txt))
    /\ ReturnedType("Warning")

Dot_nk == <<".", "n", "k">>
Dot_py == <<".", "p", "y">>
ToolsetDot == <<"t", "o", "o", "l", "s", "e", "t", ".">>

\* some entry equals toolset.nk or toolset.py case-insensitively
HasCaseVariant(f, root) ==
    \E e \in Range(ListDir(f, root)) : Lower(e) \in {N_toolset_nk, N_toolset_py}
\* some entry matches toolset.* and its extension is neither .nk nor .py
HasUnsupported(f, root) ==
    \E e \in Range(ListDir(f, root)) :
        StartsWith(e, ToolsetDot) /\ SplitExt(e)[2] \notin {Dot_nk, Dot_py}

ReasonText == ret.out.entity.error_message.text

\* C3: with neither exact-case payload file, the reason is "case mismatch" if
\* some entry equals toolset.nk or toolset.py case-insensitively, else
\* "unsupported extension" if some entry matches toolset.* with an unrecognized
\* extension, else "no toolset file found".
C3_ReasonPriority ==
    (Created /\ Listable /\ ~NkFile /\ ~PyFile) =>
        /\ ReturnedType("Warning")
        /\ ReasonText =
              IF HasCaseVariant(fs, ret.root) THEN "Payload filename case mismatch."
              ELSE IF HasUnsupported(fs, ret.root) THEN "Unsupported toolset extension"
              ELSE "No toolset.nk or toolset.py found in this folder."

----
(***************************************************************************)
(* Scanning: catalog trees with ignored, plain-file, empty and unreadable  *)
(* entries, scanned and re-scanned while folders disappear                 *)
(***************************************************************************)
NoTree == [p \in {} |-> DirNode(TRUE)]
PayloadText == <<"p", "a", "s", "s", "\n">>

\* the subtree of one toolset folder
Folder(path, template) ==
    CASE template = "absent" -> NoTree
      [] template = "file" -> (path :> TextFile(<<"x">>))
      [] template = "empty" -> (path :> DirNode(TRUE))
      [] template = "locked" -> (path :> DirNode(FALSE))
      [] template = "nk" ->
            (path :> DirNode(TRUE)) @@ (Join(path, N_toolset_nk) :> TextFile(<<"x">>))
            @@ (Join(path, N_data_json) :> JsonFile(SampleMeta, TRUE))
      [] template = "py" ->
            (path :> DirNode(TRUE)) @@ (Join(path, N_toolset_py) :> TextFile(PayloadText))
      [] template = "both" ->
            (path :> DirNode(TRUE)) @@ (Join(path, N_toolset_nk) :> TextFile(<<"x">>))
            @@ (Join(path, N_toolset_py) :> TextFile(PayloadText))

\* an entry of the catalog root: a user folder (listable or not) or a plain file
UserEntry(name, kind) ==
    CASE kind = "absent" -> NoTree
      [] kind = "file" -> (<<name>> :> TextFile(<<"x">>))
      [] kind = "dir" -> (<<name>> :> DirNode(TRUE))
      [] kind = "locked" -> (<<name>> :> DirNode(FALSE))

ScanFs(alice, blur, grade, old, bob, bobGrade, temp, cache, readme) ==
    (Root :> DirNode(TRUE))
    @@ UserEntry(N_alice, alice)
    @@ Folder(<<N_alice, N_Blur>>, blur)
    @@ Folder(<<N_alice, N_Grade>>, grade)
    @@ Folder(<<N_alice, N_old>>, old)
    @@ UserEntry(N_bob, bob)
    @@ (IF bob \in {"dir", "locked"} THEN Folder(<<N_bob, N_Grade>>, bobGrade) ELSE NoTree)
    @@ UserEntry(N_temp, temp)
    @@ (IF temp = "dir" THEN Folder(<<N_temp, N_Blur>>, "nk") ELSE NoTree)
    @@ UserEntry(N_cache, cache)
    @@ UserEntry(N_readme, readme)

ScanInit ==
    /\ \E alice \in {"dir", "locked"},
          blur \in {"absent", "file", "empty", "locked", "nk", "py", "both"},
          grade \in {"absent", "locked", "py"},
          old \in {"absent", "nk"},
          bob \in {"absent", "file", "dir", "locked"},
          bobGrade \in {"absent", "locked", "nk"},
          temp \in {"absent", "dir"},
          cache \in {"absent", "dir"},
          readme \in {"absent", "file"} :
          /\ bob \in {"absent", "file"} => bobGrade = "absent"
          /\ fs = ScanFs(alice, blur, grade, old, bob, bobGrade, temp, cache, readme)
    /\ host = NoHost
    /\ toolsets = <<>>
    /\ load_errors = <<>>
    /\ created = {}
    /\ ret = NoRet

\* ToolsetsLoader.__init__ (its call of load) and ToolsetsLoader.reload
Load ==
    /\ \E after \in {load_state(toolsets, load_errors, fs)} :
          /\ toolsets' = after.toolsets
          /\ load_errors' = after.load_errors
          /\ ret' = [op |-> "load", raised |-> after.raised]
    /\ UNCHANGED <<fs, host, created>>

\* out of band, a toolset folder is deleted with everything in it
EnvRemove ==
    /\ \E p \in DOMAIN fs :
          /\ Len(p) = 2
          /\ fs' = [q \in {q \in DOMAIN fs : ~(Len(q) >= 2 /\ SubSeq(q, 1, 2) = p)} |-> fs[q]]
    /\ ret' = [op |-> "env"]
    /\ UNCHANGED <<host, toolsets, load_errors, created>>

Next == Load \/ EnvRemove

Spec == ScanInit /\ [][Next]_vars

----
Scanned == ret.op = "load"

\* the toolset folders the scan is to classify: folders of listed users
EligibleFolders ==
    {p \in DOMAIN fs :
        /\ Len(p) = 2
        /\ IsDir(fs, p) /\ IsDir(fs, <<p[1]>>)
        /\ p[1][1] \notin {".", "_"} /\ p[2][1] \notin {".", "_"}}

\* how often folder p is listed in the catalog, and under which users
CatalogSlots(p) ==
    {<<i, k>> \in (DOMAIN toolsets) \X (1..Cardinality(DOMAIN NameOrder)) :
        k \in DOMAIN toolsets[i].items /\ toolsets[i].items[k].root = p}
WarningSlots(p) == {i \in DOMAIN load_errors : load_errors[i][1] = p}

\* C4: when create raises for a toolset folder, the scan records exactly one
\* (path, message) warning for it, leaves it out of the catalog, and lists every
\* other eligible folder of every user, once, under its user, as create
\* classifies it; an exception of create never makes the scan raise (the scan
\* raises only when the root or a user folder cannot be listed).
C4_ScanSurvivesCreateFailure ==
    Scanned =>
        /\ ~ret.raised =>
              \A p \in EligibleFolders :
                 IF create(fs, p).raised
                 THEN /\ Cardinality(WarningSlots(p)) = 1
                      /\ \A i \in WarningSlots(p) : load_errors[i][2] = create(fs, p).exc
                      /\ CatalogSlots(p) = {}
                 ELSE /\ Cardinality(CatalogSlots(p)) = 1
                      /\ \A sl \in CatalogSlots(p) :
                            /\ toolsets[sl[1]].user = p[1]
                            /\ toolsets[sl[1]].items[sl[2]] = create(fs, p).entity
                      /\ WarningSlots(p) = {}
        /\ ~ret.raised => \A i \in DOMAIN load_errors : load_errors[i][1] \in EligibleFolders
        /\ ret.raised =>
              \E d \in {Root} \cup {<<n>> : n \in Range(NameOrder)} :
                 IsDir(fs, d) /\ ~fs[d].listable

C4_Witness ==
    /\ Scanned /\ ~ret.raised
    /\ create(fs, <<N_alice, N_Blur>>).raised
    /\ Len(load_errors) = 1
    /\ load_errors[1][1] = <<N_alice, N_Blur>>
    /\ \E i \in DOMAIN toolsets :
          /\ toolsets[i].user = N_alice
          /\ Len(toolsets[i].items) = 1
          /\ toolsets[i].items[1].root = <<N_alice, N_Grade>>
    /\ \E i \in DOMAIN toolsets :
          /\ toolsets[i].user = N_bob
          /\ Len(toolsets[i].items) = 1
          /\ toolsets[i].items[1].toolset_type = "Nuke"

\* C5: after a scan, get_users() is exactly the directories directly under the
\* root whose names start with neither "." nor "_", each once; a user folder
\* without toolsets is listed, plain files are not.
C5_UsersAreVisibleDirectories ==
    (Scanned /\ ~ret.raised) =>
        /\ Range(get_users(toolsets)) =
              {n \in Range(NameOrder) : IsDir(fs, <<n>>) /\ n[1] \notin {".", "_"}}
        /\ \A i, j \in DOMAIN toolsets : toolsets[i].user = toolsets[j].user => i = j

C5_Witness ==
    /\ Scanned /\ ~ret.raised
    /\ IsDir(fs, <<N_temp>>) /\ IsDir(fs, <<N_cache>>) /\ IsFile(fs, <<N_readme>>)
    /\ IsFile(fs, <<N_bob>>)
    /\ get_users(toolsets) = <<N_alice>>
    /\ toolsets[1].items = <<>>


----
(***************************************************************************)
(* Queries on a loaded catalog                                             *)
(***************************************************************************)
MetaSoft == MetaOf(<<"s", "o", "f", "t", " ", "b", "l", "u", "r">>, <<<<"b", "l", "u", "r", "_", "h", "e", "a", "v", "y">>, <<"G", "l", "o", "w">>>>)
MetaGrade == MetaOf(<<"C", "o", "l", "o", "r", " ", "G", "R", "A", "D", "E">>, <<<<"g", "r", "a", "d", "e">>>>)
MetaSharp == MetaOf(<<>>, <<<<" ", "S", "h", "a", "r", "p", " ">>>>)

\* a toolset folder with a payload and, unless meta is "none", a data.json
QueryFolder(path, payload, meta) ==
    (path :> DirNode(TRUE)) @@ (Join(path, payload) :> TextFile(<<"x">>))
    @@ (IF meta = "none" THEN NoTree
        ELSE Join(path, N_data_json) :>
                JsonFile(CASE meta = "soft" -> MetaSoft
                           [] meta = "grade" -> MetaGrade
                           [] meta = "sharp" -> MetaSharp, TRUE))

QuerySlot(path, choice) ==
    CASE choice = "absent" -> NoTree
      [] choice = "nk_soft" -> QueryFolder(path, N_toolset_nk, "soft")
      [] choice = "py_soft" -> QueryFolder(path, N_toolset_py, "soft")
      [] choice = "py_none" -> QueryFolder(path, N_toolset_py, "none")
      [] choice = "nk_sharp" -> QueryFolder(path, N_toolset_nk, "sharp")
      [] choice = "py_grade" -> QueryFolder(path, N_toolset_py, "grade")

QueryFs(aliceBlur, aliceGrade, bob, bobBlur) ==
    (Root :> DirNode(TRUE)) @@ (<<N_alice>> :> DirNode(TRUE))
    @@ QuerySlot(<<N_alice, N_Blur>>, aliceBlur)
    @@ QuerySlot(<<N_alice, N_Grade>>, aliceGrade)
    @@ (IF bob THEN (<<N_bob>> :> DirNode(TRUE)) @@ QuerySlot(<<N_bob, N_Blur>>, bobBlur)
        ELSE NoTree)

\* the loader has been constructed on the tree
QueryInit ==
    /\ \E aliceBlur \in {"absent", "nk_soft", "py_none", "nk_sharp"},
          aliceGrade \in {"absent", "py_grade"},
          bob \in BOOLEAN,
          bobBlur \in {"absent", "py_soft", "nk_sharp"} :
          /\ ~bob => bobBlur = "absent"
          /\ fs = QueryFs(aliceBlur, aliceGrade, bob, bobBlur)
    /\ host = NoHost
    /\ toolsets = load(fs).toolsets
    /\ load_errors = load(fs).load_errors
    /\ created = {}
    /\ ret = NoRet

N_carol == <<"c", "a", "r", "o", "l">>
QueryNames == {<<>>, <<"b", "l", "u", "r">>, <<"B", "L">>, <<" ", "B", "l", "u", "r", " ">>, <<"g", "r">>, <<" ", " ">>}
QueryTags == {<<>>, <<<<"b", "l", "u", "r">>>>, <<<<"s", "h", "a", "r", "p">>>>, <<<<"b", "l", "u", "r">>, <<"g", "l", "o", "w">>>>, <<<<"H", "E", "A", "V", "Y", " ">>>>, <<<<"b", "l", "u", "r">>, <<"s", "h", "a", "r", "p">>>>, <<<<" ", " ">>>>}
QueryDescriptions == {<<>>, <<"s", "o", "f", "t">>, <<"G", "R", "A", "D", "E">>, <<"b", "l", "u", "r", " ">>}
QueryUsers == {ALL, N_alice, N_bob, N_carol}

GetToolsetBy ==
    /\ ret.op = "none"
    /\ \E name \in QueryNames, tags \in QueryTags,
          description \in QueryDescriptions, user \in QueryUsers :
          ret' = [op |-> "get_toolset_by", name |-> name, tags |-> tags,
                  description |-> description, user |-> user,
                  out |-> get_toolset_by(toolsets, name, tags, description, user)]
    /\ UNCHANGED <<fs, host, toolsets, load_errors, created>>

GetToolsetUsers == {ALL, N_alice, N_bob, N_carol, <<" ", "a", "l", "i", "c", "e">>}
GetToolsetNames == {<<"b", "l", "u", "r">>, <<"B", "l", "u", "r">>, <<"G", "r", "a", "d", "e">>, <<" ", "g", "r", "a", "d", "e", " ">>, <<"x">>}

GetToolset ==
    /\ ret.op = "none"
    /\ \E user_name \in GetToolsetUsers, toolset_name \in GetToolsetNames :
          ret' = [op |-> "get_toolset", user_name |-> user_name,
                  toolset_name |-> toolset_name,
                  out |-> get_toolset(toolsets, user_name, toolset_name)]
    /\ UNCHANGED <<fs, host, toolsets, load_errors, created>>

\* the caller takes the result (or handles the exception) of its call
Return ==
    /\ ret.op # "none"
    /\ ret' = NoRet
    /\ UNCHANGED <<fs, host, toolsets, load_errors, created>>

QueryNext == GetToolsetBy \/ GetToolset \/ Return

SpecQuery == QueryInit /\ [][QueryNext]_vars

----
Queried == ret.op = "get_toolset_by" /\ ~ret.out.raised

\* every toolset of the catalog, and those in the scope of a query for user
AllToolsets == UNION {Range(toolsets[i].items) : i \in DOMAIN toolsets}
InScope(user) == {t \in AllToolsets : user = ALL \/ user_of(t) = user}

OwnTags(t) == IF "tags" \in t.meta.keys THEN Range(t.meta.tags) ELSE {}
OwnDescription(t) == IF "description" \in t.meta.keys THEN t.meta.description ELSE <<>>

\* the three conditions, on the filters as given
MatchesAsGiven(t, name, tags, description) ==
    /\ Contains(Lower(name), Lower(t.name))
    /\ Contains(Lower(description), Lower(OwnDescription(t)))
    /\ \A q \in Range(tags) : \E own \in OwnTags(t) : Contains(Lower(q), Lower(own))

\* the three conditions, on the filters with surrounding whitespace removed; a
\* requested tag that is blank is dropped
MatchesTrimmed(t, name, tags, description) ==
    /\ Contains(Lower(Strip(name)), Lower(t.name))
    /\ Contains(Lower(Strip(description)), Lower(OwnDescription(t)))
    /\ \A q \in Range(tags) :
          Strip(q) # <<>> => \E own \in OwnTags(t) : Contains(Lower(Strip(q)), Lower(own))

NoRepeats(items) == \A i, j \in DOMAIN items : items[i] = items[j] => i = j

\* C6 as stated: get_toolset_by returns exactly the toolsets in scope whose name
\* and description contain the query name and description and who have, for
\* every requested tag, an own tag containing it (all case-insensitively).
C6_FilterAsGiven ==
    Queried =>
        Range(ret.out.items) =
            {t \in InScope(ret.user) : MatchesAsGiven(t, ret.name, ret.tags, ret.description)}

\* C6 amended: the same, with the query name, description and tags compared
\* after their surrounding whitespace is removed (a filter that is empty after
\* that imposes no constraint); each toolset is returned once.
C6_FilterTrimmed ==
    Queried =>
        /\ Range(ret.out.items) =
              {t \in InScope(ret.user) : MatchesTrimmed(t, ret.name, ret.tags, ret.description)}
        /\ NoRepeats(ret.out.items)

C6_Witness ==
    /\ Queried
    /\ ret.user = ALL /\ ret.name = <<" ", "B", "l", "u", "r", " ">> /\ ret.tags = <<<<"H", "E", "A", "V", "Y", " ">>>> /\ ret.description = <<>>
    /\ Len(ret.out.items) = 1
    /\ ret.out.items[1].root = <<N_bob, N_Blur>>
    /\ <<"b", "l", "u", "r", "_", "h", "e", "a", "v", "y">> \in OwnTags(ret.out.items[1])
    /\ \E t \in AllToolsets : t.root = <<N_alice, N_Blur>> /\ OwnTags(t) = {<<" ", "S", "h", "a", "r", "p", " ">>}

GotToolset == ret.op = "get_toolset"

\* C7: get_toolset returns only a toolset of the given user whose name equals the
\* given name case-insensitively; it fails with KeyError listing the user's
\* toolset names when the user has no such toolset, and with KeyError when the
\* user is not a user of the catalog.  (Names are compared as the code compares
\* them, with surrounding whitespace removed.)
C7_GetToolsetWithinUser ==
    GotToolset =>
        LET user == Strip(ret.user_name)
            mine == {t \in AllToolsets : user_of(t) = user}
            wanted == {t \in mine : Lower(t.name) = Lower(Strip(ret.toolset_name))}
        IN  /\ ~ret.out.raised =>
                 /\ Len(ret.out.items) = 1
                 /\ ret.out.items[1] \in wanted
            /\ user \notin Range(get_users(toolsets)) =>
                 /\ ret.out.raised
                 /\ ret.out.exc \in {"KeyError: No such user", "KeyError: No such toolset"}
            /\ (user \in Range(get_users(toolsets)) /\ wanted = {}) =>
                 /\ ret.out.raised
                 /\ ret.out.exc = "KeyError: No such toolset"
                 /\ Range(ret.out.choices) = {t.name : t \in mine}


(***************************************************************************)
(* Saving: savers of both kinds called with valid and invalid arguments,   *)
(* with and without a host, and with I/O errors at every step              *)
(***************************************************************************)
MetaOld == MetaOf(<<"o", "l", "d">>, <<<<"k", "e", "e", "p">>>>)

\* alice's folder before the first save: missing, or holding Blur as a Nuke
\* toolset, as a Python toolset, or as a plain file
SaveFs(blur) ==
    LET base == (Root :> DirNode(TRUE))
        home == base @@ (<<N_alice>> :> DirNode(TRUE))
        folder == home @@ (<<N_alice, N_Blur>> :> DirNode(TRUE))
                       @@ (<<N_alice, N_Blur, N_data_json>> :> JsonFile(MetaOld, TRUE))
    IN  CASE blur = "nohome" -> base
          [] blur = "nk" -> folder @@ (<<N_alice, N_Blur, N_toolset_nk>> :> TextFile(PayloadText))
          [] blur = "py" -> folder @@ (<<N_alice, N_Blur, N_toolset_py>> :> TextFile(PayloadText))
          [] OTHER -> home @@ (<<N_alice, N_Blur>> :> TextFile(PayloadText))

\* the host application: absent (nuke is None), or present with or without
\* selected nodes
Hosts == {[present |-> FALSE, selection |-> FALSE],
          [present |-> TRUE, selection |-> FALSE],
          [present |-> TRUE, selection |-> TRUE]}

SaveInit ==
    /\ \E blur \in {"nohome", "nk", "py", "file"} : fs = SaveFs(blur)
    /\ host \in Hosts
    /\ toolsets = <<>>
    /\ load_errors = <<>>
    /\ created = {}
    /\ ret = NoRet

SaveKinds == {"Nuke", "Python"}
SaveNames == {<<>>, N_Blur}
SaveDescriptions == {<<>>, <<"s", "o", "f", "t">>}
SaveTags == {PyNone,
             PyStr(<<" ", "a", ",", " ", ",", "b">>),
             PyList(<<PyStr(<<"a">>)>>),
             PyList(<<PyStr(<<" ", "a", " ">>), PyInt(<<"7">>)>>),
             PyInt(<<"5">>)}
SavePayloads == {PyNone, PyStr(<<>>), PyStr(<<"\t", "x">>)}

\* one call of save() on a saver of user alice, from validation to the last
\* write or to the step that raises
Save ==
    /\ ret.op = "none"
    /\ \E kind \in SaveKinds, name \in SaveNames, description \in SaveDescriptions,
          tags \in SaveTags, toolset_data \in SavePayloads, io_fail \in IoFailures :
          LET out == save(fs, host, kind, N_alice, name, description, tags, toolset_data, io_fail)
              toolset_root == assemble_toolset_root(N_alice, name)
          IN  /\ fs' = out.fs
              /\ created' = IF IsDir(out.fs, toolset_root) /\ ~IsDir(fs, toolset_root)
                            THEN created \cup {toolset_root} ELSE created
              /\ ret' = [op |-> "save", kind |-> kind, user |-> N_alice, name |-> name,
                         tags |-> tags, toolset_data |-> toolset_data, exc |-> out.exc]
    /\ UNCHANGED <<host, toolsets, load_errors>>

SaveNext == Save \/ Return

SpecSave == SaveInit /\ [][SaveNext]_vars

ValidationErrors == {NameMsg, TagsTypeMsg, TagsListMsg, DuplicateMsg, SelectionMsg, ScriptMsg}
OnlyStrings(tags) == \A k \in DOMAIN tags.items : tags.items[k].t = "str"
Target(r) == <<r.user, r.name>>
HasPayload(f, p) == IsFile(f, Join(p, N_toolset_nk)) \/ IsFile(f, Join(p, N_toolset_py))
HasMeta(f, p) == IsFile(f, Join(p, N_data_json))
EmptyPayload(r) == r.kind = "Python" /\ (r.toolset_data.t = "none" \/ r.toolset_data.s = <<>>)

\* C8 as stated: a save with an empty name, with tags that are not a sequence of
\* strings (an int, or a list with a non-string element), or for the Script
\* kind with an empty or None payload raises a validation error and leaves the
\* filesystem unchanged.
C8_ViolationRejected ==
    [][(ret'.op = "save"
          /\ (\/ ret'.name = <<>>
              \/ ret'.tags.t = "int"
              \/ (ret'.tags.t = "list" /\ ~OnlyStrings(ret'.tags))
              \/ EmptyPayload(ret')))
       => (ret'.exc \in ValidationErrors /\ fs' = fs)]_vars

\* C8, amended: a save with an empty name, with tags that are neither None, a
\* str nor a list, or for the Script kind with an empty or None payload raises
\* a validation error and leaves the filesystem unchanged; a list of tags with
\* non-string elements is no violation: the save passes validation whenever
\* its other arguments do.
C8_ViolationRejectedCoerced ==
    [][ret'.op = "save" =>
         /\ (ret'.name = <<>> \/ ret'.tags.t = "int" \/ EmptyPayload(ret'))
               => (ret'.exc \in ValidationErrors /\ fs' = fs)
         /\ (/\ ret'.tags.t = "list"
             /\ ret'.name # <<>>
             /\ ~EmptyPayload(ret')
             /\ ~IsDir(fs, Target(ret'))
             /\ ~(ret'.kind = "Nuke" /\ host.present /\ ~host.selection))
               => ret'.exc \notin ValidationErrors]_vars

C8_Witness ==
    /\ ret.op = "save"
    /\ ret.tags.t = "list" /\ ~OnlyStrings(ret.tags)
    /\ ret.name = N_Blur
    /\ ret.exc = ""
    /\ Target(ret) \in created
    /\ HasMeta(fs, Target(ret))
    /\ fs[Join(Target(ret), N_data_json)].json.tags = <<<<"a">>, <<"7">>>>

\* C9 as stated: when the folder of name N exists for the saver's user, every
\* save of N fails with the duplicate-name error and changes nothing on disk.
C9_DuplicateRejected ==
    [][(ret'.op = "save" /\ IsDir(fs, Target(ret')))
       => (ret'.exc = DuplicateMsg /\ fs' = fs)]_vars

\* C9, amended: when the folder of name N exists for the saver's user, every
\* save of N fails with a validation error and changes nothing on disk; the
\* error is the duplicate-name error when the tags are None, a str or a list,
\* and the tags-type error otherwise.
C9_DuplicateOrTagsRejected ==
    [][(ret'.op = "save" /\ IsDir(fs, Target(ret')))
       => /\ fs' = fs
          /\ ret'.exc = IF ret'.tags.t = "int" THEN TagsTypeMsg ELSE DuplicateMsg]_vars

C9_Witness ==
    /\ ret.op = "save"
    /\ ret.exc = DuplicateMsg
    /\ ret.kind = "Python"
    /\ ret.name = N_Blur
    /\ HasMeta(fs, Target(ret))
    /\ fs[Join(Target(ret), N_data_json)] = JsonFile(MetaOld, TRUE)
    /\ fs[Join(Target(ret), N_toolset_nk)] = TextFile(PayloadText)

\* C10: save validates, creates the folder, writes data.json and then the
\* payload, so after every save, failed at any step or not, every folder that
\* save created and that holds a payload file holds data.json as well.  (The
\* states between two steps of a save are the ones a save failing at the
\* later step ends in.)
C10_MetaBeforePayload ==
    \A p \in created : HasPayload(fs, p) => HasMeta(fs, p)

C10_Witness ==
    /\ ret.op = "save"
    /\ ret.exc = OSErrorMsg
    /\ Target(ret) \in created
    /\ HasPayload(fs, Target(ret))
    /\ HasMeta(fs, Target(ret))


(***************************************************************************)
(* Metadata: entities built over missing, valid and unparseable data.json,  *)
(* then written by update_meta and by save, and loaded again                *)
(***************************************************************************)
\* a data.json cut short by a crash
TruncatedJsonFile ==
    [kind |-> "file", listable |-> TRUE, form |-> "json",
     text |-> <<"{", "\n", " ", " ", " ", " ", Quote, "d", "e", "s">>,
     valid |-> FALSE, json |-> EmptyMeta, newline |-> FALSE]

MetaFolder(path, payload, meta) ==
    (path :> DirNode(TRUE))
    @@ (CASE payload = "nk" -> (Join(path, N_toolset_nk) :> TextFile(SelectionText))
          [] payload = "py" -> (Join(path, N_toolset_py) :> TextFile(PayloadText))
          [] OTHER -> NoTree)
    @@ (CASE meta = "valid" -> (Join(path, N_data_json) :> JsonFile(MetaOld, TRUE))
          [] meta = "empty" -> (Join(path, N_data_json) :> CorruptJsonFile)
          [] meta = "truncated" -> (Join(path, N_data_json) :> TruncatedJsonFile)
          [] OTHER -> NoTree)

MetaInit ==
    /\ \/ fs = (Root :> DirNode(TRUE)) @@ (<<N_alice>> :> DirNode(TRUE))
       \/ \E payload \in {"nk", "py", "none"},
             meta \in {"absent", "valid", "empty", "truncated"} :
             fs = (Root :> DirNode(TRUE)) @@ (<<N_alice>> :> DirNode(TRUE))
                  @@ MetaFolder(<<N_alice, N_Blur>>, payload, meta)
    /\ host \in {[present |-> FALSE, selection |-> FALSE], [present |-> TRUE, selection |-> TRUE]}
    /\ toolsets = load(fs).toolsets
    /\ load_errors = load(fs).load_errors
    /\ created = {}
    /\ ret = NoRet

MetaDescriptions == {<<"s", "o", "f", "t">>, <<"a", Quote, Backslash, "\n", "b">>}
MetaTagLists == {<<>>, <<<<"a">>, <<"b">>>>, <<<<" ", "a">>, <<>>, <<"b">>, <<"b">>>>}
MetaSaveTags == {PyNone,
                 PyList(<<PyStr(<<"a">>), PyStr(<<"b">>)>>),
                 PyStr(<<"a", ",", " ", "a">>),
                 PyList(<<PyStr(<<" ", "a", " ">>), PyInt(<<"7">>)>>)}

\* one call of update_meta on a toolset of the catalog
UpdateMeta ==
    /\ ret.op = "none"
    /\ \E i \in DOMAIN toolsets : \E j \in DOMAIN toolsets[i].items :
       \E description \in MetaDescriptions, tags \in MetaTagLists,
          io_fail \in {"none", "meta_open", "meta_write"} :
          LET out == update_meta(fs, toolsets[i].items[j], description, tags, io_fail)
          IN  /\ fs' = out.fs
              /\ toolsets' = [toolsets EXCEPT ![i].items[j] = out.entity]
              /\ ret' = [op |-> "update_meta", root |-> toolsets[i].items[j].root,
                         description |-> description, tags |-> tags, exc |-> out.exc]
    /\ UNCHANGED <<host, load_errors, created>>

\* one call of save() for a new or an existing name
MetaSave ==
    /\ ret.op = "none"
    /\ \E kind \in SaveKinds, description \in MetaDescriptions,
          tags \in MetaSaveTags, io_fail \in {"none", "meta_write"} :
          LET name == N_Blur
              out == save(fs, host, kind, N_alice, name, description, tags,
                          PyStr(PayloadText), io_fail)
              toolset_root == assemble_toolset_root(N_alice, name)
          IN  /\ fs' = out.fs
              /\ created' = IF IsDir(out.fs, toolset_root) /\ ~IsDir(fs, toolset_root)
                            THEN created \cup {toolset_root} ELSE created
              /\ ret' = [op |-> "save", root |-> toolset_root, description |-> description,
                         tags |-> tags, exc |-> out.exc]
    /\ UNCHANGED <<host, toolsets, load_errors>>

MetaNext == UpdateMeta \/ MetaSave \/ Load \/ Return

SpecMeta == MetaInit /\ [][MetaNext]_vars


CatalogEntities == UNION {Range(toolsets[i].items) : i \in DOMAIN toolsets}
Parses(node) == json_loads(FileText(node)).ok
Wrote == ret.op \in {"update_meta", "save"} /\ ret.exc = ""
TrimmedTag(tag) == tag # <<>> /\ Strip(tag) = tag
ValidTagList(tags) ==
    tags.t = "list" /\ \A k \in DOMAIN tags.items :
                          tags.items[k].t = "str" /\ TrimmedTag(tags.items[k].s)

\* C11: building a toolset entity never fails because of its metadata: every
\* folder of the scan is in the catalog; an entity whose data.json is absent
\* has the empty meta and meta_missing set; an entity whose data.json does not
\* parse has the empty meta and a non-empty load-error string.
C11_MetaNeverBlocks ==
    ret.op = "load" =>
        /\ ~ret.raised
        /\ load_errors = <<>>
        /\ \A p \in DOMAIN fs :
              (Len(p) = 2 /\ IsDir(fs, p)) => \E t \in CatalogEntities : t.root = p
        /\ \A t \in CatalogEntities :
              /\ ~IsFile(fs, meta_file(t.root))
                    => (t.meta = EmptyMeta /\ t.meta_missing = TRUE)
              /\ (IsFile(fs, meta_file(t.root)) /\ ~Parses(fs[meta_file(t.root)]))
                    => (t.meta = EmptyMeta /\ t.meta_load_error \notin {NoneVal, ""})

C11_Witness ==
    /\ ret.op = "load"
    /\ \E t \in CatalogEntities :
          /\ t.toolset_type = "Python"
          /\ IsFile(fs, meta_file(t.root))
          /\ fs[meta_file(t.root)] = TruncatedJsonFile
          /\ t.meta = EmptyMeta
          /\ t.meta_load_error = "JSONDecodeError"

\* C12: after update_meta or save has written the pair (description, tags),
\* data.json exists, its text parses to what the next load of the folder
\* returns, and that is the description and the tags just written (for save:
\* tags given as a list of trimmed, non-empty strings); a later write replaces
\* an earlier one.
C12_MetaRoundTrip ==
    Wrote =>
        /\ IsFile(fs, meta_file(ret.root))
        /\ json_loads(FileText(fs[meta_file(ret.root)]))
              = [ok |-> TRUE, meta |-> load_meta(fs, ret.root).meta]
        /\ load_meta(fs, ret.root).meta_missing = FALSE
        /\ load_meta(fs, ret.root).meta_load_error = NoneVal
        /\ load_meta(fs, ret.root).meta.description = ret.description
        /\ ret.op = "update_meta" => load_meta(fs, ret.root).meta.tags = ret.tags
        /\ (ret.op = "save" /\ ValidTagList(ret.tags))
              => load_meta(fs, ret.root).meta.tags
                    = [k \in DOMAIN ret.tags.items |-> ret.tags.items[k].s]

C12_Witness ==
    /\ Wrote
    /\ ret.op = "update_meta"
    /\ ret.root \in created
    /\ ret.description = <<"a", Quote, Backslash, "\n", "b">>
    /\ ret.tags = <<<<"a">>, <<"b">>>>
    /\ load_meta(fs, ret.root).meta = MetaOf(ret.description, ret.tags)

\* C19: every data.json written by save or by update_meta holds its tags as a
\* sequence of trimmed, non-empty strings without duplicates.
C19_TagsNormalized ==
    Wrote =>
        LET tags == load_meta(fs, ret.root).meta.tags
        IN  /\ \A k \in DOMAIN tags : TrimmedTag(tags[k])
            /\ \A j, k \in DOMAIN tags : tags[j] = tags[k] => j = k

\* C20: every data.json written by save or by update_meta is the indented
\* dump of its contents followed by a line break.
C20_TrailingNewline ==
    Wrote =>
        LET text == FileText(fs[meta_file(ret.root)])
        IN  text = json_dumps(json_loads(text).meta) \o <<"\n">>


(***************************************************************************)
(* Running and overwriting payloads: script, graph and invalid toolsets,    *)
(* executed directly and from the panel, while payload files disappear      *)
(***************************************************************************)
ScriptOk == <<"N", "=", "1", "\n", "d", "e", "f", " ", "e", "x", "e", "c", "u", "t", "e", "(", ")", ":", "\n", " ", " ", " ", " ", "p", "a", "s", "s", "\n">>
ScriptRaising == <<"N", "=", "1", "\n", "d", "e", "f", " ", "e", "x", "e", "c", "u", "t", "e", "(", ")", ":", "\n", " ", " ", " ", " ", "1", "/", "0", "\n">>
ScriptNoEntry == <<"N", "=", "1", "\n">>
ScriptNotCallable == <<"e", "x", "e", "c", "u", "t", "e", "=", "1", "\n">>
ScriptBroken == <<"d", "e", "f", " ", "e", "x", "e", "c", "u", "t", "e", "(", ":", "\n">>
Scripts == {ScriptOk, ScriptRaising, ScriptNoEntry, ScriptNotCallable, ScriptBroken}
\* the text typed into the editor: tab-indented, no line break at the end
ScriptTyped == <<"N", "=", "1", "\n", "d", "e", "f", " ", "e", "x", "e", "c", "u", "t", "e", "(", ")", ":", "\n", "\t", "p", "a", "s", "s">>

ExecFolder(path, kind, text) ==
    (path :> DirNode(TRUE))
    @@ (IF kind \in {"nk", "both"}
        THEN (Join(path, N_toolset_nk) :> TextFile(SelectionText)) ELSE NoTree)
    @@ (IF kind \in {"py", "both"}
        THEN (Join(path, N_toolset_py) :> TextFile(text)) ELSE NoTree)

\* sys.modules restricted to the names of toolset modules: empty, or holding a
\* module that other code of the process imported under such a name
ModuleCaches == {<<>>, (unique_name(N_Blur) :> {"N"})}

ExecInit ==
    /\ \E script \in Scripts, grade \in {"nk", "empty", "both"} :
          fs = (Root :> DirNode(TRUE)) @@ (<<N_alice>> :> DirNode(TRUE))
               @@ (<<N_bob>> :> DirNode(TRUE))
               @@ ExecFolder(<<N_alice, N_Blur>>, "py", script)
               @@ ExecFolder(<<N_alice, N_Blur_2>>, "py", ScriptOk)
               @@ ExecFolder(<<N_alice, N_Grade>>, grade, ScriptOk)
               @@ ExecFolder(<<N_bob, N_Blur>>, "py", ScriptOk)
    /\ \E h \in Hosts, modules \in ModuleCaches :
          host = [present |-> h.present, selection |-> h.selection,
                  modules |-> modules, ran |-> {}]
    /\ toolsets = load(fs).toolsets
    /\ load_errors = load(fs).load_errors
    /\ created = {}
    /\ ret = NoRet

ExecRet(op, t, h, out) ==
    [op |-> op, t |-> t, exc |-> out.exc, message |-> out.message, paste |-> out.paste,
     script_ran |-> out.script_ran, registered |-> out.registered,
     saw_stale |-> out.saw_stale, entry_invoked |-> out.entry_invoked,
     entry_raised |-> out.entry_raised,
     ran_before |-> unique_name(t.name) \in h.ran]

\* one call of execute() on a toolset of the catalog
Execute ==
    /\ ret.op = "none"
    /\ \E i \in DOMAIN toolsets : \E j \in DOMAIN toolsets[i].items : \E host_fail \in BOOLEAN :
          LET t == toolsets[i].items[j]
              out == execute(fs, host, t, host_fail)
          IN  /\ host' = out.host
              /\ ret' = ExecRet("execute", t, host, out)
    /\ UNCHANGED <<fs, toolsets, load_errors, created>>

\* the panel's Insert button on the selected toolset
InsertToolset ==
    /\ ret.op = "none"
    /\ \E i \in DOMAIN toolsets : \E j \in DOMAIN toolsets[i].items : \E host_fail \in BOOLEAN :
          LET t == toolsets[i].items[j]
              out == insert_toolset(fs, host, t, host_fail)
          IN  /\ host' = out.host
              /\ ret' = ExecRet("insert_toolset", t, host, out)
    /\ UNCHANGED <<fs, toolsets, load_errors, created>>

\* one call of update_toolset_data() on a toolset of the catalog
UpdateToolsetData ==
    /\ ret.op = "none"
    /\ \E i \in DOMAIN toolsets : \E j \in DOMAIN toolsets[i].items :
       \E toolset_data \in {PyNone, PyStr(ScriptTyped)}, io_fail \in {"none", "payload_open"} :
          LET t == toolsets[i].items[j]
              out == update_toolset_data(fs, host, t, toolset_data, io_fail)
          IN  /\ fs' = out.fs
              /\ ret' = [op |-> "update_toolset_data", t |-> t,
                         toolset_data |-> toolset_data, exc |-> out.exc]
    /\ UNCHANGED <<host, toolsets, load_errors, created>>

\* out of band, a payload file is deleted after the scan classified its folder
EnvRemovePayload ==
    /\ ret.op = "none"
    /\ \E p \in DOMAIN fs :
          /\ Len(p) = 3
          /\ Basename(p) \in {N_toolset_nk, N_toolset_py}
          /\ fs' = [q \in DOMAIN fs \ {p} |-> fs[q]]
    /\ ret' = [op |-> "env"]
    /\ UNCHANGED <<host, toolsets, load_errors, created>>

ExecNext == Execute \/ InsertToolset \/ UpdateToolsetData \/ EnvRemovePayload \/ Return

SpecExecute == ExecInit /\ [][ExecNext]_vars


Ran == ret.op \in {"execute", "insert_toolset"}
PayloadOf(t) == toolset_file(fs, t.root)

\* C13: a script toolset's module name is in the module cache while the script
\* runs and is out of it when execute() returns or raises, whether the import
\* fails, the entry point is missing, the entry point raises, or all succeeds.
C13_ModuleCacheClean ==
    (Ran /\ ret.t.toolset_type = "Python" /\ ret.script_ran) =>
        /\ ret.registered
        /\ unique_name(ret.t.name) \notin DOMAIN host.modules

C13_Witness ==
    /\ ret.op = "execute"
    /\ ret.t.toolset_type = "Python"
    /\ ret.script_ran
    /\ ret.entry_raised
    /\ ret.exc = "ZeroDivisionError"
    /\ ret.registered
    /\ DOMAIN host.modules = {}

\* C14: whatever script toolsets ran before, with the same module name or
\* another, a run of a script toolset finds no module-level state of an
\* earlier run.
C14_FreshNamespace ==
    (Ran /\ ret.script_ran) => ~ret.saw_stale

C14_Witness ==
    /\ ret.op = "execute"
    /\ ret.script_ran
    /\ ret.t.root = <<N_bob, N_Blur>>
    /\ ret.ran_before
    /\ unique_name(N_Blur_2) \in host.ran
    /\ ~ret.saw_stale

\* C15: an invalid toolset has the type "Warning"; its execute() raises
\* RuntimeError with its error_message and changes nothing; its
\* update_toolset_data changes no file, whatever it is given.
C15_InvalidInert ==
    [][/\ \A t \in CatalogEntities : t.error_message # NoMessage => t.toolset_type = "Warning"
       /\ (ret'.op = "execute" /\ ret'.t.toolset_type = "Warning")
             => /\ ret'.exc = "RuntimeError"
                /\ ret'.message = ret'.t.error_message
                /\ ret'.message # NoMessage
                /\ ~ret'.paste.called /\ ~ret'.script_ran
                /\ host' = host /\ fs' = fs
       /\ (ret'.op = "update_toolset_data" /\ ret'.t.toolset_type = "Warning")
             => (ret'.exc = "" /\ fs' = fs)]_vars

C15_Witness ==
    /\ ret.op = "update_toolset_data"
    /\ ret.t.toolset_type = "Warning"
    /\ ret.t.error_message = NoPayloadMsg
    /\ ret.toolset_data = PyStr(ScriptTyped)
    /\ ret.exc = ""
    /\ ~PayloadOf(ret.t).found

\* C16: execute() of a graph toolset raises when the host is absent and when
\* toolset.nk is gone, and calls the host's paste only with the host present
\* and toolset.nk in place.
C16_GraphExecuteGuards ==
    (ret.op = "execute" /\ ret.t.toolset_type = "Nuke") =>
        /\ ~host.present => ret.exc # ""
        /\ ~IsFile(fs, Join(ret.t.root, N_toolset_nk)) => ret.exc # ""
        /\ ret.paste.called => (host.present /\ IsFile(fs, Join(ret.t.root, N_toolset_nk)))

\* C17: an exception of a script's entry point leaves execute() as an
\* execution error, not as the exception the script raised; a payload without
\* a callable execute makes execute() fail with the entry point not invoked.
C17_EntryFailureWrapped ==
    (ret.op = "execute" /\ ret.t.toolset_type = "Python" /\ ret.script_ran) =>
        /\ ret.entry_raised => ret.exc \notin {"", "ZeroDivisionError"}
        /\ ~ScriptDefinesEntry(fs[PayloadOf(ret.t).path].text)
              => (ret.exc # "" /\ ~ret.entry_invoked)


\* C18: a save of the Nuke kind raises and creates nothing whenever the host
\* reports no selected nodes (none selected, or no host), and whenever it
\* returns normally the new folder holds toolset.nk.
C18_GraphSaveNeedsSelection ==
    [][(ret'.op = "save" /\ ret'.kind = "Nuke")
       => /\ ~(host.present /\ host.selection) => (ret'.exc # "" /\ fs' = fs)
          /\ ret'.exc = "" => IsFile(fs', Join(Target(ret'), N_toolset_nk))]_vars

(***************************************************************************)
(* Metadata edited by hand: data.json files holding other keys, values of   *)
(* other types than the schema's, and documents that are no object, loaded, *)
(* queried and rewritten                                                    *)
(***************************************************************************)
DocOtherKeys ==
    <<"{", Quote, "a", "u", "t", "h", "o", "r", Quote, ":", " ", Quote, "b", "o", "b",
    Quote, ",", " ", Quote, "t", "a", "g", "s", Quote, ":", " ", "[", Quote, "k",
    Quote, "]", ",", " ", Quote, "v", "e", "r", "s", "i", "o", "n", Quote, ":", " ",
    "2", ",", " ", Quote, "d", "e", "s", "c", "r", "i", "p", "t", "i", "o", "n", Quote,
    ":", " ", Quote, "o", "l", "d", Quote, "}">>
DocList == <<"[", Quote, "a", Quote, "]">>
DocStr == <<Quote, "s", "o", "f", "t", Quote>>
DocInt == <<"7">>
DocNull == <<"n", "u", "l", "l">>
DocTagsNull ==
    <<"{", Quote, "d", "e", "s", "c", "r", "i", "p", "t", "i", "o", "n", Quote, ":",
    " ", Quote, "o", "l", "d", Quote, ",", " ", Quote, "t", "a", "g", "s", Quote, ":",
    " ", "n", "u", "l", "l", "}">>
DocTagsStr == <<"{", Quote, "t", "a", "g", "s", Quote, ":", " ", Quote, "a", "b", Quote, "}">>
DocTagsInt == <<"{", Quote, "t", "a", "g", "s", Quote, ":", " ", "5", "}">>
DocTagsMixed ==
    <<"{", Quote, "t", "a", "g", "s", Quote, ":", " ", "[", Quote, "a", Quote, ",",
    " ", "1", "]", "}">>
EditedDocs ==
    {DocOtherKeys, DocList, DocStr, DocInt, DocNull, DocTagsNull, DocTagsStr, DocTagsInt,
     DocTagsMixed}

\* alice/Blur with a hand-written data.json, next to alice/Grade as the engine
\* wrote it
EditedInit ==
    /\ \E doc \in EditedDocs, payload \in {N_toolset_nk, N_toolset_py} :
          fs = (Root :> DirNode(TRUE)) @@ (<<N_alice>> :> DirNode(TRUE))
               @@ (<<N_alice, N_Blur>> :> DirNode(TRUE))
               @@ (<<N_alice, N_Blur, payload>> :> TextFile(PayloadText))
               @@ (<<N_alice, N_Blur, N_data_json>> :> HandWritten(doc))
               @@ QueryFolder(<<N_alice, N_Grade>>, N_toolset_nk, "grade")
    /\ host = NoHost
    /\ toolsets = load(fs).toolsets
    /\ load_errors = load(fs).load_errors
    /\ created = {}
    /\ ret = NoRet

\* the edit dialog's Save on the toolset Blur: one call of update_meta
EditedUpdateMeta ==
    /\ ret.op = "none"
    /\ \E i \in DOMAIN toolsets : \E j \in DOMAIN toolsets[i].items :
       \E tags \in {<<>>, <<<<"a">>, <<"b">>>>}, io_fail \in {"none", "meta_open"} :
          LET t == toolsets[i].items[j]
              out == update_meta(fs, t, <<"s", "o", "f", "t">>, tags, io_fail)
          IN  /\ t.name = N_Blur
              /\ fs' = out.fs
              /\ toolsets' = [toolsets EXCEPT ![i].items[j] = out.entity]
              /\ ret' = [op |-> "update_meta", root |-> t.root,
                         description |-> <<"s", "o", "f", "t">>, tags |-> tags,
                         exc |-> out.exc]
    /\ UNCHANGED <<host, load_errors, created>>

\* the panel's search: one call of get_toolset_by
EditedQuery ==
    /\ ret.op = "none"
    /\ \E name \in {<<>>, <<"g", "r">>, <<"b", "l">>}, tags \in {<<>>, <<<<"a">>>>},
          user \in {ALL, N_alice} :
          ret' = [op |-> "get_toolset_by", name |-> name, tags |-> tags,
                  description |-> <<>>, user |-> user,
                  out |-> get_toolset_by(toolsets, name, tags, <<>>, user)]
    /\ UNCHANGED <<fs, host, toolsets, load_errors, created>>

EditedNext == EditedUpdateMeta \/ EditedQuery \/ Load \/ Return

SpecEdited == EditedInit /\ [][EditedNext]_vars

\* the members of the file other than description and tags, as it was read
\* and as its text now reads
OtherKeys(node) ==
    SelectSeq(node.json.extra, LAMBDA m : m.key \notin {KeyDescription, KeyTags})
HoldsDict(node) == node.valid /\ node.json.form = "dict"
Reread(node) == json_loads(FileText(node))

\* C21: a data.json holding keys other than description and tags loads without
\* error into an entity whose meta holds them, and every update_meta that
\* returns rewrites the file with those keys and their values as they were,
\* next to the description and the tags it was given.
C21_OtherKeysKept ==
    [][/\ ret'.op = "load" =>
             \A t \in CatalogEntities' :
                (IsFile(fs', meta_file(t.root)) /\ HoldsDict(fs'[meta_file(t.root)]))
                   => /\ t.meta = fs'[meta_file(t.root)].json
                      /\ t.meta_load_error = NoneVal
       /\ (/\ ret'.op = "update_meta" /\ ret'.exc = ""
           /\ IsFile(fs, meta_file(ret'.root))
           /\ HoldsDict(fs[meta_file(ret'.root)]))
             => LET now == Reread(fs'[meta_file(ret'.root)])
                IN  /\ now.ok /\ now.meta.form = "dict"
                    /\ now.meta.extra = OtherKeys(fs[meta_file(ret'.root)])
                    /\ now.meta.keys = {"description", "tags"}
                    /\ now.meta.description = ret'.description
                    /\ now.meta.tags = ret'.tags
                    /\ load_meta(fs', ret'.root).meta = now.meta]_vars

C21_Witness ==
    /\ ret.op = "update_meta" /\ ret.exc = ""
    /\ ret.description = <<"s", "o", "f", "t">>
    /\ ret.tags = <<<<"a">>, <<"b">>>>
    /\ IsFile(fs, meta_file(ret.root))
    /\ fs[meta_file(ret.root)].text = <<>>
    /\ Reread(fs[meta_file(ret.root)]).meta.extra
          = << [key |-> <<"a", "u", "t", "h", "o", "r">>, val |-> PyStr(<<"b", "o", "b">>)],
               [key |-> <<"v", "e", "r", "s", "i", "o", "n">>, val |-> PyInt(<<"2">>)] >>
    /\ load_meta(fs, ret.root).meta.description = <<"s", "o", "f", "t">>

\* C30: the meta of every toolset of the catalog is a mapping, whatever its
\* data.json holds, and no call of get_toolset_by for a user of the catalog
\* raises.
C30_MetaIsMapping ==
    /\ \A t \in CatalogEntities : t.meta.form = "dict"
    /\ ret.op = "get_toolset_by" => ~ret.out.raised


(***************************************************************************)
(* The lifetime of an entity: payloads overwritten, metadata rewritten and  *)
(* toolsets run while payload files appear and disappear next to them       *)
(***************************************************************************)
\* what update_toolset_data is given: nothing, the empty text, a tab-indented
\* text without a line break at its end, a text that ends with one
PayloadTexts == {PyNone, PyStr(<<>>), PyStr(ScriptTyped), PyStr(ScriptOk)}

PayloadInit ==
    /\ \E grade \in {"nk", "empty"} :
          fs = (Root :> DirNode(TRUE)) @@ (<<N_alice>> :> DirNode(TRUE))
               @@ ExecFolder(<<N_alice, N_Blur>>, "py", ScriptOk)
               @@ (<<N_alice, N_Blur, N_data_json>> :> JsonFile(MetaOld, TRUE))
               @@ ExecFolder(<<N_alice, N_Grade>>, grade, ScriptOk)
    /\ \E h \in {NoHost, [present |-> TRUE, selection |-> TRUE]} :
          host = [present |-> h.present, selection |-> h.selection,
                  modules |-> <<>>, ran |-> {}]
    /\ toolsets = load(fs).toolsets
    /\ load_errors = load(fs).load_errors
    /\ created = {}
    /\ ret = NoRet

\* one call of update_toolset_data() on a toolset of the catalog
PayloadUpdate ==
    /\ ret.op = "none"
    /\ \E i \in DOMAIN toolsets : \E j \in DOMAIN toolsets[i].items :
       \E toolset_data \in PayloadTexts :
          LET t == toolsets[i].items[j]
              out == update_toolset_data(fs, host, t, toolset_data, "none")
          IN  /\ fs' = out.fs
              /\ ret' = [op |-> "update_toolset_data", t |-> t,
                         toolset_data |-> toolset_data, exc |-> out.exc]
    /\ UNCHANGED <<host, toolsets, load_errors, created>>

\* out of band, a toolset.nk is put into a toolset folder that has none
EnvAddNk ==
    /\ ret.op = "none"
    /\ \E p \in DOMAIN fs :
          /\ Len(p) = 2 /\ IsDir(fs, p)
          /\ ~Exists(fs, Join(p, N_toolset_nk))
          /\ fs' = Put(fs, Join(p, N_toolset_nk), TextFile(SelectionText))
    /\ ret' = [op |-> "env"]
    /\ UNCHANGED <<host, toolsets, load_errors, created>>

PayloadNext ==
    PayloadUpdate \/ EditedUpdateMeta \/ Execute \/ EnvAddNk \/ EnvRemovePayload \/ Return

SpecPayload == PayloadInit /\ [][PayloadNext]_vars

UpdatedScript == ret.op = "update_toolset_data" /\ ret.t.toolset_type = "Python"

\* C22: update_toolset_data of a script toolset with None writes nothing; with
\* a text it overwrites the payload file with the text in which every tab is
\* four spaces and which ends with a line break, one being appended exactly
\* when the text has none at its end; a second call with the same text
\* leaves the file as the first left it.
C22_ScriptPayloadNormalized ==
    [][(ret'.op = "update_toolset_data" /\ ret'.t.toolset_type = "Python") =>
         LET text == ret'.toolset_data.s
             target == toolset_file(fs, ret'.t.root)
         IN  /\ ret'.toolset_data.t = "none" => (fs' = fs /\ ret'.exc = "")
             /\ (ret'.toolset_data.t = "str" /\ ret'.exc = "") =>
                   /\ target.found
                   /\ fs'[target.path].text
                         = ReplaceTabs(text)
                           \o (IF text # <<>> /\ text[Len(text)] = "\n" THEN <<>> ELSE <<"\n">>)
                   /\ "\t" \notin Range(fs'[target.path].text)
                   /\ update_toolset_data(fs', host, ret'.t, ret'.toolset_data, "none").fs = fs'
             /\ (ret'.toolset_data.t = "str" /\ ret'.exc # "") => fs' = fs]_vars

C22_Witness ==
    /\ UpdatedScript /\ ret.exc = ""
    /\ ret.toolset_data = PyStr(ScriptTyped)
    /\ ~IsFile(fs, Join(ret.t.root, N_toolset_nk))
    /\ fs[Join(ret.t.root, N_toolset_py)].text
          = <<"N", "=", "1", "\n", "d", "e", "f", " ", "e", "x", "e", "c", "u", "t", "e", "(", ")", ":", "\n",
              " ", " ", " ", " ", "p", "a", "s", "s", "\n">>

\* C26: update_toolset_data of a script toolset with a text creates or changes
\* no file but toolset.py of its own folder, whatever appeared in the folder
\* or vanished from it since the scan.
C26_ScriptUpdateOnlyOwnFile ==
    [][(/\ ret'.op = "update_toolset_data" /\ ret'.t.toolset_type = "Python"
        /\ ret'.toolset_data.t = "str")
       => \A p \in DOMAIN fs \cup DOMAIN fs' :
             p # Join(ret'.t.root, N_toolset_py)
                => (p \in DOMAIN fs /\ p \in DOMAIN fs' /\ fs'[p] = fs[p])]_vars

\* the catalog's folders, and the folder with its data.json taken away or
\* replaced by a document of another kind
Folders(f) == {p \in DOMAIN f : Len(p) = 2 /\ IsDir(f, p)}
WithoutMeta(f, p) == [q \in DOMAIN f \ {meta_file(p)} |-> f[q]]
ListFile == HandWritten(DocList)
OtherKeysFile == HandWritten(DocOtherKeys)
KindOf(f, p) == create(f, p).entity.toolset_type

\* C23: the factory's choice of kind depends on the payload files alone, not
\* on data.json, and the kind an entity reports is the one it was created
\* with after every update_meta, update_toolset_data and execute, whatever
\* the folder holds by then.
C23_KindFixed ==
    [][ret'.op \in {"update_meta", "update_toolset_data", "execute"} =>
         /\ DOMAIN toolsets' = DOMAIN toolsets
         /\ \A i \in DOMAIN toolsets :
               /\ DOMAIN toolsets'[i].items = DOMAIN toolsets[i].items
               /\ \A j \in DOMAIN toolsets[i].items :
                     /\ toolsets'[i].items[j].root = toolsets[i].items[j].root
                     /\ toolset_type(fs', toolsets'[i].items[j])
                           = toolsets[i].items[j].toolset_type
         /\ \A p \in Folders(fs') :
               /\ KindOf(fs', p) = KindOf(WithoutMeta(fs', p), p)
               /\ KindOf(fs', p) = KindOf(Put(fs', meta_file(p), ListFile), p)
               /\ KindOf(fs', p) = KindOf(Put(fs', meta_file(p), OtherKeysFile), p)]_vars

C23_Witness ==
    /\ ret.op = "execute"
    /\ ret.t.root = <<N_alice, N_Blur>>
    /\ IsFile(fs, <<N_alice, N_Blur, N_toolset_nk>>)
    /\ IsFile(fs, <<N_alice, N_Blur, N_toolset_py>>)
    /\ fs[<<N_alice, N_Blur, N_toolset_py>>].text # ScriptOk
    /\ \E t \in CatalogEntities :
          /\ t.root = <<N_alice, N_Blur>>
          /\ t.meta.description = <<"s", "o", "f", "t">>
          /\ toolset_type(fs, t) = "Python"
          /\ KindOf(fs, t.root) = "Warning"

\* C27: execute() of a script toolset leaves the module cache as it found it:
\* the same names with the same modules, also when the cache held a module
\* under the toolset's module name before the call.
C27_ModuleCacheUntouched ==
    [][(ret'.op = "execute" /\ ret'.t.toolset_type = "Python")
       => host'.modules = host.modules]_vars

(***************************************************************************)
(* Re-scanning: a loader constructed on one tree reloads after toolset      *)
(* folders and users were removed, locked or given a payload                *)
(***************************************************************************)
RescanInit ==
    /\ \E blur \in {"py", "locked"}, grade \in {"absent", "py"}, bob \in {"absent", "dir"},
          bobGrade \in {"absent", "nk", "locked"} :
          /\ bob = "absent" => bobGrade = "absent"
          /\ fs = ScanFs("dir", blur, grade, "absent", bob, bobGrade, "absent", "absent", "absent")
    /\ host = NoHost
    /\ toolsets = load(fs).toolsets
    /\ load_errors = load(fs).load_errors
    /\ created = {}
    /\ ret = NoRet

\* out of band, a user folder is deleted with everything in it
EnvRemoveUser ==
    /\ ret.op = "none"
    /\ IsDir(fs, <<N_bob>>)
    /\ fs' = [q \in {q \in DOMAIN fs : ~(Len(q) >= 1 /\ q[1] = N_bob)} |-> fs[q]]
    /\ ret' = [op |-> "env"]
    /\ UNCHANGED <<host, toolsets, load_errors, created>>

\* out of band, a user folder or a toolset folder loses its read permission
EnvLock ==
    /\ ret.op = "none"
    /\ \E p \in DOMAIN fs :
          /\ Len(p) \in {1, 2} /\ IsDir(fs, p) /\ fs[p].listable
          /\ fs' = [fs EXCEPT ![p] = DirNode(FALSE)]
    /\ ret' = [op |-> "env"]
    /\ UNCHANGED <<host, toolsets, load_errors, created>>

\* ToolsetsLoader.reload; the caller remembers what the loader held before
Reload ==
    /\ ret.op \in {"none", "env"}
    /\ \E after \in {load_state(toolsets, load_errors, fs)} :
          /\ toolsets' = after.toolsets
          /\ load_errors' = after.load_errors
          /\ ret' = [op |-> "reload", raised |-> after.raised,
                     users_before |-> get_users(toolsets),
                     roots_before |-> {t.root : t \in AllToolsets},
                     errors_before |-> load_errors]
    /\ UNCHANGED <<fs, host, created>>

\* Controller.update_warnings_button and show_warnings start with
\* warnings = self.model.get_scan_warnings()
GetScanWarnings ==
    /\ ret.op \in {"none", "reload"}
    /\ ret' = [op |-> "get_scan_warnings", out |-> get_scan_warnings(toolsets, load_errors)]
    /\ UNCHANGED <<fs, host, toolsets, load_errors, created>>

\* Controller.populate_user_list adds the items of self.model.get_all_users()
GetAllUsers ==
    /\ ret.op \in {"none", "reload"}
    /\ ret' = [op |-> "get_all_users", out |-> get_all_users(toolsets, load_errors)]
    /\ UNCHANGED <<fs, host, toolsets, load_errors, created>>

RescanNext ==
    \/ Reload \/ EnvRemove \/ EnvRemoveUser \/ EnvLock \/ EnvAddNk
    \/ GetScanWarnings \/ GetAllUsers \/ Return

SpecRescan == RescanInit /\ [][RescanNext]_vars

\* C24: after a reload the loader holds what a loader constructed now on the
\* same tree holds: the same users, the same toolsets under each, the same
\* warnings; every user, toolset and warning it holds is on disk now. Where
\* the reload raises, constructing a loader raises too, at the same point.
C24_ReloadIsFullRebuild ==
    ret.op = "reload" =>
        /\ LET fresh == load(fs)
           IN  /\ toolsets = fresh.toolsets
               /\ load_errors = fresh.load_errors
               /\ ret.raised = fresh.raised
        /\ \A i \in DOMAIN toolsets : IsDir(fs, <<toolsets[i].user>>)
        /\ \A t \in AllToolsets : IsDir(fs, t.root) /\ t = create(fs, t.root).entity
        /\ \A k \in DOMAIN load_errors :
              IsDir(fs, load_errors[k][1]) /\ create(fs, load_errors[k][1]).raised

C24_Witness ==
    /\ ret.op = "reload"
    /\ ret.users_before = <<N_alice, N_bob>>
    /\ get_users(toolsets) = <<N_alice>>
    /\ <<N_alice, N_Grade>> \in ret.roots_before
    /\ <<N_alice, N_Grade>> \notin {t.root : t \in AllToolsets}
    /\ Len(ret.errors_before) = 2
    /\ Len(load_errors) = 1
    /\ ~ret.raised

\* C29: a reload never raises, whatever the tree holds; every directory
\* under the root with a visible name is a user of the catalog afterwards,
\* also when another user folder cannot be listed.
C29_LoadNeverRaises ==
    ret.op = "reload" =>
        /\ ~ret.raised
        /\ Range(get_users(toolsets)) =
              {n \in Range(NameOrder) : IsDir(fs, <<n>>) /\ n[1] \notin {".", "_"}}

\* C25: after any scan, Model.get_scan_warnings returns normally, and what
\* it returns is the list of (path, message) warnings of the latest scan, in
\* order (empty when no folder failed).
C25_ScanWarningsReturned ==
    ret.op = "get_scan_warnings" =>
        /\ ~ret.out.raised
        /\ ret.out.value = get_load_errors(load_errors)

(***************************************************************************)
(* Saving a new toolset and scanning again                                  *)
(***************************************************************************)
CreateInit ==
    /\ \/ fs = (Root :> DirNode(TRUE))
       \/ fs = (Root :> DirNode(TRUE)) @@ (<<N_alice>> :> DirNode(TRUE))
                 @@ Folder(<<N_alice, N_Grade>>, "py")
    /\ host \in {[present |-> FALSE, selection |-> FALSE], [present |-> TRUE, selection |-> TRUE]}
    /\ toolsets = load(fs).toolsets
    /\ load_errors = load(fs).load_errors
    /\ created = {}
    /\ ret = NoRet

\* the saver's user and the name typed
CreateTargets == {<<N_alice, <<>>>>, <<N_alice, N_Grade>>, <<N_alice, N_old>>,
                  <<N_temp, N_Grade>>}
CreateTags == {PyNone, PyStr(<<" ", "a", ",", " ", ",", "b">>)}

\* one call of save() by the saver of a user
CreateSave ==
    /\ ret.op = "none"
    /\ \E kind \in SaveKinds, target \in CreateTargets, tags \in CreateTags :
          LET description == <<"s", "o", "f", "t">>
              toolset_data == PyStr(PayloadText)
              out == save(fs, host, kind, target[1], target[2], description, tags,
                          toolset_data, "none")
              toolset_root == assemble_toolset_root(target[1], target[2])
          IN  /\ fs' = out.fs
              /\ created' = IF IsDir(out.fs, toolset_root) /\ ~IsDir(fs, toolset_root)
                            THEN created \cup {toolset_root} ELSE created
              /\ ret' = [op |-> "save", kind |-> kind, user |-> target[1], name |-> target[2],
                         description |-> description, tags |-> tags, exc |-> out.exc]
    /\ UNCHANGED <<host, toolsets, load_errors>>

\* ToolsetsLoader.reload right after a save; the caller remembers the save
CreateReload ==
    /\ ret.op = "save"
    /\ \E after \in {load_state(toolsets, load_errors, fs)} :
          /\ toolsets' = after.toolsets
          /\ load_errors' = after.load_errors
          /\ ret' = [op |-> "reloaded", raised |-> after.raised, saved |-> ret]
    /\ UNCHANGED <<fs, host, created>>

CreateNext == CreateSave \/ CreateReload \/ Return

SpecCreate == CreateInit /\ [][CreateNext]_vars

\* the toolsets the catalog lists for user under name
Listed(user, name) ==
    {t \in UNION {Range(toolsets[i].items) : i \in {i \in DOMAIN toolsets : toolsets[i].user = user}} :
        t.name = name}

\* C28: when save() returned normally, the reload that follows lists one
\* toolset of that name for the saver's user, rooted at <root>/<user>/<name>,
\* of the saver's kind, with the description and the tags that were written.
C28_SavedIsListed ==
    (ret.op = "reloaded" /\ ret.saved.exc = "") =>
        /\ Cardinality(Listed(ret.saved.user, ret.saved.name)) = 1
        /\ \A t \in Listed(ret.saved.user, ret.saved.name) :
              /\ t.root = <<ret.saved.user, ret.saved.name>>
              /\ t.toolset_type = ret.saved.kind
              /\ t.meta = MetaOf(ret.saved.description, tags_list(ret.saved.tags))

====
